---- MODULE Spec2Model ----
(***************************************************************************)
(* A model of the browser-macro extension: the background coordinator      *)
(* (flow runner, run log, trigger matcher, request handlers) and the       *)
(* page-side step executor.  Every asynchronous function is cut at its     *)
(* await points: the code between two awaits is one atomic action, and     *)
(* the actions of concurrently running functions interleave freely.        *)
(* A behaviour of the flow-runner specifications follows one signal (a     *)
(* navigation-complete event, a keyboard command or a RunFlow request)     *)
(* and the runFlow invocations it starts.                                  *)
(***************************************************************************)
EXTENDS Integers, Sequences, FiniteSets, TLC

(***************************************************************************)
(* Bounds of the model.                                                    *)
(***************************************************************************)
MaxRuns == 2      \* runFlow invocations started by the signal of a behaviour

VARIABLES
  tasks,      \* persisted "tasks" list            (storage.ts StoragePayload)
  flows,      \* persisted "flows" list
  triggers,   \* persisted "triggers" list
  logs,       \* persisted "logs" list
  runs,       \* the runFlow invocations, in call order, each with its position
  signal,     \* the signal the background received (history)
  overlap,    \* history: some upsertLog wrote a list read before another write
  dom,        \* page: the elements present in the document
  exe,        \* page: the executor's handling of one ExecuteStep message
  responses,  \* page: the StepResult responses sent (history)
  effects,    \* page: what the executor did to elements (history)
  del,        \* background: the DeleteFlow handler and its concurrent deleteTrigger calls
  heap,               \* background: the RecordingBuffer objects created so far
  recordingBuffers,   \* background: the in-memory map from tab to its buffer object
  storedBuffers,      \* storage: the persisted recordingBuffers list
  conversationStates, \* background: the in-memory map from conversation to its state
  storedConvs,        \* storage: the persisted conversationStates list
  hs,                 \* background: the recording and LLM handlers called so far
  channel,            \* page: the tab's content script can be reached
  recording,          \* page: the recorder's flag
  imp,                \* background: the ImportData handler and its storage calls
  cap,                \* page: the recorder, the events of the page and the steps sent
  req,                \* background: the request messages the listener received
  cv,                 \* background: a call of the conversation-state storage functions
  fz,                 \* background: finalizeFlowLog called on one log object
  rst,                \* background: the restore of the chat dialog after one load of a tab
  hyd,                \* background: the start-up hydration of the recordingBuffers map
  lp,                 \* background: the execute loop of one conversational turn
  synth               \* page: a document, and the SelectorInfo built for one of its elements

runVars == <<tasks, flows, triggers, logs, runs, signal, overlap>>
exeVars == <<dom, exe, responses, effects>>
delVars == <<del>>
recVars == <<heap, recordingBuffers, storedBuffers, conversationStates, storedConvs,
             hs, channel, recording>>
extVars == <<imp, cap, req, cv, fz, synth, rst, hyd, lp>>
notRunVars == <<exeVars, delVars, recVars, extVars>>
notExeVars == <<runVars, delVars, recVars, extVars>>
notDelVars == <<tasks, logs, runs, signal, overlap, exeVars, recVars, extVars>>
notRecVars == <<flows, triggers, logs, runs, signal, overlap, exeVars, delVars, extVars>>
notImpVars == <<logs, runs, signal, overlap, exeVars, delVars, recVars, cap, req, cv, fz, synth,
               rst, hyd, lp>>
notCapVars == <<runVars, exeVars, delVars, recVars, imp, req, cv, fz, synth, rst, hyd, lp>>
notReqVars == <<runVars, exeVars, delVars, recVars, imp, cap, cv, fz, synth, rst, hyd, lp>>
notSelVars == <<runVars, exeVars, delVars, recVars, imp, cap, req, cv, fz, rst, hyd, lp>>
vars == <<runVars, exeVars, delVars, recVars, extVars>>

(***************************************************************************)
(* Values                                                                  *)
(***************************************************************************)
NoTab == 0                     \* undefined tab id / no active tab
Tabs == {1}
NoIdx == 0

Step(id, type) == [id |-> id, type |-> type]

Task(id, steps) == [id |-> id, steps |-> steps]

Flow(id, taskIds, patterns, enabled) ==
  [id |-> id, taskIds |-> taskIds, autoRunUrlPatterns |-> patterns, enabled |-> enabled]

Trigger(id, type, flowId, urlPattern, shortcutName, enabled) ==
  [id |-> id, type |-> type, flowId |-> flowId, urlPattern |-> urlPattern,
   shortcutName |-> shortcutName, enabled |-> enabled]

Range(s) == {s[i] : i \in 1..Len(s)}

\* an absent selector, an absent element, an executor that has received nothing
NoSelector == [css |-> "", xpath |-> "", present |-> FALSE]
NoElement == "none"
ExeIdle ==
  [pc |-> "idle", step |-> [id |-> "", type |-> "", selector |-> NoSelector,
                            waitMs |-> 0, script |-> "absent"],
   attempt |-> 0, found |-> NoElement, domAt |-> {}]

\* the page plays no part in the background's specifications
PageIdle ==
  /\ dom = {}
  /\ exe = ExeIdle
  /\ responses = <<>>
  /\ effects = <<>>

\* no DeleteFlow request is handled
DelIdle ==
  del = [pc |-> "idle", flowId |-> "", snap |-> <<>>, orphans |-> <<>>,
         subs |-> <<>>, before |-> <<>>]

\* no ImportData request is handled
StorageKeys == {"tasks", "flows", "triggers"}
ImpIdle ==
  [pc |-> "idle", n |-> 0, mode |-> "",
   payload |-> [k \in StorageKeys |-> [present |-> FALSE, items |-> <<>>]],
   got |-> [k \in StorageKeys |-> <<>>], vals |-> [k \in StorageKeys |-> <<>>],
   pending |-> {}, result |-> "", before |-> [k \in StorageKeys |-> <<>>]]
\* part_003 306: the recorder as the content script loads it, nothing sent
CapIdle == [recording |-> FALSE, listeners |-> {}, last |-> "none", msgs |-> 0,
            events |-> <<>>, sent |-> <<>>]
\* no SelectorInfo is built
NoInfo == [css |-> [kind |-> "none", value |-> <<>>], xpath |-> <<>>, attributes |-> <<>>]
\* no storage function of the conversation states is called
CvIdle == [pc |-> "idle", n |-> 0, op |-> "", arg |-> <<>>, snap |-> <<>>,
           before |-> <<>>, result |-> <<>>]
\* finalizeFlowLog is not called outside runFlow
FzIdle == [pc |-> "idle", n |-> 0, flowLog |-> <<>>, snap |-> <<>>, before |-> <<>>,
           statuses |-> <<>>]
\* no tab has finished loading
RstIdle == [pc |-> "idle", states |-> <<>>, tabId |-> 0, status |-> "", url |-> "",
            atLoad |-> <<>>, retryCount |-> 0, tries |-> <<>>, sends |-> <<>>,
            results |-> <<>>, turns |-> 0, stored |-> <<>>, deleted |-> <<>>,
            responses |-> <<>>]
\* the start-up hydration is over and plays no part
HydIdle == [pc |-> "over", snap |-> <<>>]
\* no conversational turn executes a step list
LoopIdle == [pc |-> "idle", steps |-> <<>>, present |-> FALSE, i |-> 0, waitCount |-> 0,
             currentUrl |-> "", previousUrl |-> "", executed |-> <<>>, nWaits |-> 0,
             lastWait |-> <<>>, seenNavigation |-> FALSE, result |-> ""]
SelIdle == [doc |-> <<>>, target |-> 0, info |-> NoInfo, resolved |-> <<>>]
ExtIdle ==
  /\ imp = ImpIdle
  /\ cap = CapIdle
  /\ req = <<>>
  /\ cv = CvIdle /\ lp = LoopIdle /\ hyd = HydIdle /\ rst = RstIdle
  /\ fz = FzIdle
  /\ synth = SelIdle

\* nothing is recorded and no LLM request is handled
NoBuf == 0                     \* recordingBuffers.get(tabId) is undefined
NoConv == [conversationId |-> "", history |-> <<>>, tabId |-> 0, isActive |-> FALSE]
ConvIds == {"c1"}
RecIdle ==
  /\ heap = <<>>
  /\ recordingBuffers = [t \in {1} |-> NoBuf]
  /\ storedBuffers = <<>>
  /\ conversationStates = [c \in ConvIds |-> NoConv]
  /\ storedConvs = <<>>
  /\ hs = <<>>
  /\ channel = TRUE
  /\ recording = FALSE

\* the background plays no part in the page's specification
RunIdle ==
  /\ tasks = <<>>
  /\ flows = <<>>
  /\ triggers = <<>>
  /\ logs = <<>>
  /\ runs = <<>>
  /\ signal = [kind |-> "none", tabId |-> 0, status |-> "", arg |-> ""]
  /\ overlap = FALSE

\* Array.prototype.findIndex, 1-based; NoIdx when nothing is found
FindIndex(s, P(_)) ==
  IF \E i \in 1..Len(s) : P(s[i])
  THEN CHOOSE i \in 1..Len(s) : P(s[i]) /\ \A j \in 1..(i-1) : ~P(s[j])
  ELSE NoIdx

(***************************************************************************)
(* URL patterns.  RegExp and String.includes are library code: they are    *)
(* modelled by their results on the URLs and patterns of the model.        *)
(***************************************************************************)
UrlExample == "https://example.com/"
UrlParen == "https://other.org/a(b"
Urls == {UrlExample, UrlParen}

\* new RegExp(pattern) throws for these
RegexInvalid == {"(b", "(x"}

\* regex.test(url) for the patterns that compile
RegexTest(pattern, url) ==
  CASE pattern = "example.com" -> url = UrlExample
    [] pattern = "^https" -> TRUE
    [] pattern = "other\\.org" -> url = UrlParen
    [] pattern = "nomatch" -> FALSE
    [] OTHER -> FALSE

\* url.includes(pattern)
Includes(url, pattern) ==
  CASE pattern = "(b" -> url = UrlParen
    [] pattern = "example.com" -> url = UrlExample
    [] OTHER -> FALSE

matchUrlPattern(pattern, url) ==
  IF pattern = "" THEN FALSE
  ELSE IF pattern \notin RegexInvalid THEN RegexTest(pattern, url)
  ELSE Includes(url, pattern)

(***************************************************************************)
(* Run log (logger) and its persistence (storage.upsertLog)                *)
(***************************************************************************)
createFlowLogDirect(id, flow, triggeredBy) ==
  [id |-> id, flowId |-> flow.id, triggeredBy |-> "direct",
   status |-> "partial", stepLogs |-> <<>>]

createFlowLog(id, flow, triggeredBy) ==
  [id |-> id, flowId |-> flow.id, triggeredBy |-> triggeredBy,
   status |-> "partial", stepLogs |-> <<>>]

StepRunLog(step, status, errorMessage) ==
  [stepId |-> step.id, status |-> status, errorMessage |-> errorMessage]

\* the synchronous part of addStepLog: flowLog.stepLogs.push(stepLog)
pushStepLogFront(flowLog, step, status, errorMessage) ==
  [flowLog EXCEPT !.stepLogs = <<StepRunLog(step, status, errorMessage)>> \o @]

pushStepLog(flowLog, step, status, errorMessage) ==
  [flowLog EXCEPT !.stepLogs = Append(@, StepRunLog(step, status, errorMessage))]

\* the same when only the first final status is kept
setStatusOnce(flowLog, status) ==
  IF flowLog.status = "partial" THEN [flowLog EXCEPT !.status = status] ELSE flowLog

\* the synchronous part of finalizeFlowLog: flowLog.status = status
setStatus(flowLog, status) == [flowLog EXCEPT !.status = status]

\* the part of upsertLog after its read: replace the entry with the log's id or append
upsertAppendAlways(stored, log) == Append(stored, log)

\* the same when the list read is not kept: only the log is written
upsertAlone(stored, log) == << log >>

upsertInto(stored, log) ==
  LET idx == FindIndex(stored, LAMBDA l : l.id = log.id)
  IN IF idx # NoIdx THEN [stored EXCEPT ![idx] = log] ELSE Append(stored, log)


NoLog == [id |-> 0, flowId |-> "", triggeredBy |-> "", status |-> "none", stepLogs |-> <<>>]

(***************************************************************************)
(* Flow runner (runner.ts)                                                 *)
(***************************************************************************)
\* a lookup that answers with a placeholder step for a task that is not stored
tasksMapGetOrStub(taskList, taskId) ==
  IF \E i \in 1..Len(taskList) : taskList[i].id = taskId
  THEN (CHOOSE t \in Range(taskList) : t.id = taskId).steps
  ELSE <<Step("missing", "wait")>>

\* new Map(tasks.map(t => [t.id, t.steps])).get(taskId) ?? []
tasksMapGet(taskList, taskId) ==
  IF \E i \in 1..Len(taskList) : taskList[i].id = taskId
  THEN taskList[CHOOSE i \in 1..Len(taskList) :
                  /\ taskList[i].id = taskId
                  /\ \A j \in (i+1)..Len(taskList) : taskList[j].id # taskId].steps
  ELSE <<>>

RECURSIVE flattenSteps(_, _)
flattenSteps(taskIds, taskList) ==
  IF taskIds = <<>> THEN <<>>
  ELSE tasksMapGet(taskList, Head(taskIds)) \o flattenSteps(Tail(taskIds), taskList)

\* the state of one runFlow invocation right after the call: both reads are issued
RunFlowCall(flowId, explicitTabId, triggeredBy, trig) ==
  [flowId |-> flowId, explicitTabId |-> explicitTabId, by |-> triggeredBy,
   trig |-> trig, pc |-> "start", steps |-> <<>>, tabId |-> NoTab,
   i |-> 0, flowLog |-> NoLog, snap |-> <<>>, results |-> <<>>, error |-> "",
   caught |-> FALSE, fins |-> 0]

\* what the executor channel can answer to one ExecuteStep
Outcomes == {"ok", "ng", "chan"}
ErrorOf(outcome) == IF outcome = "ng" THEN "ng" ELSE "Could not establish connection"

\* runner.ts 30-60: flows and tasks are read, the flow is looked up, its steps are
\* flattened, the target tab is determined, the log object is created and the
\* first step is sent to the tab (i counts the steps sent); a flow without steps
\* is finalized as success at once
RunStart(r) ==
  /\ runs[r].pc = "start"
  /\ LET run == runs[r]
         idx == FindIndex(flows, LAMBDA f : f.id = run.flowId)
     IN IF idx = NoIdx
        THEN runs' = [runs EXCEPT ![r].pc = "rejected", ![r].error = "Flow not found"]
        ELSE \E active \in Tabs \cup {NoTab} :
               LET tabId == IF run.explicitTabId # NoTab THEN run.explicitTabId ELSE active
                   steps == flattenSteps(flows[idx].taskIds, tasks)
               IN IF tabId = NoTab
                  THEN runs' = [runs EXCEPT ![r].pc = "rejected",
                                            ![r].error = "No active tab found"]
                  ELSE runs' = [runs EXCEPT
                         ![r].steps = steps,
                         ![r].tabId = tabId,
                         ![r].flowLog =
                            IF steps = <<>>
                            THEN setStatus(createFlowLog(r, flows[idx], run.by), "success")
                            ELSE createFlowLog(r, flows[idx], run.by),
                         ![r].fins = IF steps = <<>> THEN 1 ELSE 0,
                         ![r].i = IF steps = <<>> THEN 0 ELSE 1,
                         ![r].pc = IF steps = <<>> THEN "finRead" ELSE "wait"]
  /\ UNCHANGED <<tasks, flows, triggers, logs, signal, overlap, notRunVars>>

StepStatus(outcome) == IF outcome = "ok" THEN "success" ELSE "failed"

\* runner.ts 61-72: the answer (or the channel error) arrives; the step log is
\* pushed onto the in-memory log and addStepLog's upsertLog issues its read
StepResult(r, outcome) ==
  /\ runs[r].pc = "wait"
  /\ LET run == runs[r]
         step == run.steps[run.i]
     IN runs' = [runs EXCEPT
          ![r].results = Append(@, outcome),
          ![r].flowLog = pushStepLog(@, step, StepStatus(outcome),
                                     IF outcome = "ok" THEN "" ELSE ErrorOf(outcome)),
          ![r].pc = "logRead"]
  /\ UNCHANGED <<tasks, flows, triggers, logs, signal, overlap, notRunVars>>

\* storage.ts 116: getLogs() resolves inside addStepLog's upsertLog
LogRead(r) ==
  /\ runs[r].pc = "logRead"
  /\ runs' = [runs EXCEPT ![r].snap = logs, ![r].pc = "logWrite"]
  /\ UNCHANGED <<tasks, flows, triggers, logs, signal, overlap, notRunVars>>

\* runner.ts 63-72: a failure result and a channel error both end the loop
stopsAfterNever(outcome) == FALSE

stopsAfter(outcome) == outcome # "ok"

\* after a step log is persisted: finalize as failed and return at a failure
\* (also in the catch block, runner.ts 69-71), send the next step (sendStepToTab,
\* runner.ts 60) otherwise, finalize as success after the last one; fins counts
\* the calls of finalizeFlowLog (history)
AfterStepLog(run) ==
  LET last == run.results[Len(run.results)]
  IN IF stopsAfter(last) \/ run.caught
     THEN [run EXCEPT !.flowLog = setStatus(@, "failed"), !.pc = "finRead",
                      !.fins = @ + 1]
     ELSE IF run.i < Len(run.steps)
          THEN [run EXCEPT !.i = @ + 1, !.pc = "wait"]
          ELSE [run EXCEPT !.flowLog = setStatus(@, "success"), !.pc = "finRead",
                           !.fins = @ + 1]

\* storage.ts 117-123 and runner.ts 62-75: the list read is updated and written;
\* then runFlow sends the next step or sets the final status and finalizes
LogWrite(r) ==
  /\ runs[r].pc = "logWrite"
  /\ logs' = upsertInto(runs[r].snap, runs[r].flowLog)
  /\ runs' = [runs EXCEPT ![r] = AfterStepLog([@ EXCEPT !.snap = <<>>])]
  /\ overlap' = (overlap \/ runs[r].snap # logs)
  /\ UNCHANGED <<tasks, flows, triggers, signal, notRunVars>>

\* storage.ts 116: getLogs() resolves inside finalizeFlowLog's upsertLog
FinRead(r) ==
  /\ runs[r].pc = "finRead"
  /\ runs' = [runs EXCEPT ![r].snap = logs, ![r].pc = "finWrite"]
  /\ UNCHANGED <<tasks, flows, triggers, logs, signal, overlap, notRunVars>>

\* storage.ts 117-123: the finalized log is written; runFlow returns
FinWrite(r) ==
  /\ runs[r].pc = "finWrite"
  /\ logs' = upsertInto(runs[r].snap, runs[r].flowLog)
  /\ runs' = [runs EXCEPT ![r].snap = <<>>, ![r].pc = "done"]
  /\ overlap' = (overlap \/ runs[r].snap # logs)
  /\ UNCHANGED <<tasks, flows, triggers, signal, notRunVars>>

\* the failure of a storage access inside runFlow (storage.ts 41-45, 55-59:
\* chrome.runtime.lastError rejects the promise)
StorageError == "storage"

\* the run is in the catch block of its step loop (runner.ts 68-72): the tab's
\* channel failed, or a log write inside the try block failed
InCatch(run) ==
  \/ run.caught
  \/ run.results # <<>> /\ run.results[Len(run.results)] = "chan"

\* runner.ts 30: getFlows or getTasks rejects, and runFlow with it
StartFails(r) ==
  /\ runs[r].pc = "start"
  /\ runs' = [runs EXCEPT ![r].pc = "rejected", ![r].error = StorageError]
  /\ UNCHANGED <<tasks, flows, triggers, logs, signal, overlap, notRunVars>>

\* runner.ts 62, 64, 69: the upsertLog of addStepLog rejects, at its read or at
\* its write.  Inside the try block the catch block takes over: it pushes a
\* failed step log for the same step and upserts again; inside the catch block
\* runFlow rejects
LogFails(r) ==
  /\ runs[r].pc \in {"logRead", "logWrite"}
  /\ LET run == runs[r]
     IN runs' = [runs EXCEPT ![r] =
          IF InCatch(run)
          THEN [run EXCEPT !.pc = "rejected", !.error = StorageError, !.snap = <<>>]
          ELSE [run EXCEPT !.caught = TRUE, !.snap = <<>>, !.pc = "logRead",
                           !.flowLog = pushStepLog(@, run.steps[run.i], "failed",
                                                   StorageError)]]
  /\ UNCHANGED <<tasks, flows, triggers, logs, signal, overlap, notRunVars>>

\* runner.ts 65, 70, 75: the upsertLog of finalizeFlowLog rejects.  The call of
\* line 65 is inside the try block, so the catch block logs the step as failed
\* and finalizes again; the calls of lines 70 and 75 reject runFlow
FinFails(r) ==
  /\ runs[r].pc \in {"finRead", "finWrite"}
  /\ LET run == runs[r]
         inTry == /\ ~InCatch(run)
                  /\ run.results # <<>>
                  /\ run.results[Len(run.results)] = "ng"
     IN runs' = [runs EXCEPT ![r] =
          IF inTry
          THEN [run EXCEPT !.caught = TRUE, !.snap = <<>>, !.pc = "logRead",
                           !.flowLog = pushStepLog(@, run.steps[run.i], "failed",
                                                   StorageError)]
          ELSE [run EXCEPT !.pc = "rejected", !.error = StorageError, !.snap = <<>>]]
  /\ UNCHANGED <<tasks, flows, triggers, logs, signal, overlap, notRunVars>>

(***************************************************************************)
(* Trigger matcher (background index: runUrlTriggers, onUpdated, onCommand)*)
(***************************************************************************)
\* flows.find((f) => f.id === trigger.flowId && f.enabled) finds a flow
hasEnabledFlowIgnoringFlag(fls, flowId) == \E i \in 1..Len(fls) : fls[i].id = flowId

hasEnabledFlow(fls, flowId) ==
  \E i \in 1..Len(fls) : fls[i].id = flowId /\ fls[i].enabled

\* the same when the trigger's own enabled flag is not looked at
activeUrlTriggersAnyState(trigs, fls, url) ==
  SelectSeq(trigs, LAMBDA t : /\ t.type = "url"
                              /\ matchUrlPattern(t.urlPattern, url)
                              /\ hasEnabledFlow(fls, t.flowId))

\* the url triggers runUrlTriggers fires, in list order
activeUrlTriggers(trigs, fls, url) ==
  SelectSeq(trigs, LAMBDA t : /\ t.enabled /\ t.type = "url"
                              /\ matchUrlPattern(t.urlPattern, url)
                              /\ hasEnabledFlow(fls, t.flowId))

\* the flows that trigger themselves by one of their own patterns, in list order
autoFlows(fls, url) ==
  SelectSeq(fls, LAMBDA f : /\ f.enabled
                            /\ \E k \in 1..Len(f.autoRunUrlPatterns) :
                                 matchUrlPattern(f.autoRunUrlPatterns[k], url))

\* the same when a flow a trigger has started is not started again for its own
\* patterns
urlRunCallsOncePerFlow(trigs, fls, tabId, url) ==
  LET a == activeUrlTriggers(trigs, fls, url)
      f == SelectSeq(autoFlows(fls, url),
                     LAMBDA fl : \A k \in 1..Len(a) : a[k].flowId # fl.id)
  IN [k \in 1..Len(a) |-> RunFlowCall(a[k].flowId, tabId, "url", a[k].id)]
     \o [k \in 1..Len(f) |-> RunFlowCall(f[k].id, tabId, "url", "auto")]

\* the runFlow calls of runUrlTriggers(tabId, url), in call order
urlRunCalls(trigs, fls, tabId, url) ==
  LET a == activeUrlTriggers(trigs, fls, url)
      f == autoFlows(fls, url)
  IN [k \in 1..Len(a) |-> RunFlowCall(a[k].flowId, tabId, "url", a[k].id)]
     \o [k \in 1..Len(f) |-> RunFlowCall(f[k].id, tabId, "url", "auto")]

\* the shortcut triggers the onCommand listener fires, in list order
activeShortcutTriggers(trigs, fls, command) ==
  SelectSeq(trigs, LAMBDA t : /\ t.enabled /\ t.type = "shortcut"
                              /\ t.shortcutName = command
                              /\ hasEnabledFlow(fls, t.flowId))

\* the runFlow calls of the onCommand listener, in call order
commandRunCalls(trigs, fls, command) ==
  LET a == activeShortcutTriggers(trigs, fls, command)
  IN [k \in 1..Len(a) |-> RunFlowCall(a[k].flowId, NoTab, "shortcut", a[k].id)]

Commands == {"c1", "c2"}
TabStatuses == {"loading", "complete"}
FlowIds == {"f1", "f2", "fX"}

NoSignal == [kind |-> "none", tabId |-> NoTab, status |-> "", arg |-> ""]

\* tabs.onUpdated listener with runUrlTriggers: the runs are started, not awaited
TabUpdated(tabId, status, url) ==
  /\ signal = NoSignal
  /\ LET calls == IF status = "complete" /\ url # ""
                  THEN urlRunCalls(triggers, flows, tabId, url)
                  ELSE <<>>
     IN /\ Len(calls) <= MaxRuns
        /\ runs' = calls
  /\ signal' = [kind |-> "nav", tabId |-> tabId, status |-> status, arg |-> url]
  /\ UNCHANGED <<tasks, flows, triggers, logs, overlap, notRunVars>>

\* commands.onCommand listener: the runs are started, not awaited
Command(command) ==
  /\ signal = NoSignal
  /\ LET calls == commandRunCalls(triggers, flows, command)
     IN /\ Len(calls) <= MaxRuns
        /\ runs' = calls
  /\ signal' = [kind |-> "command", tabId |-> NoTab, status |-> "", arg |-> command]
  /\ UNCHANGED <<tasks, flows, triggers, logs, overlap, notRunVars>>

\* handleRunFlow: a RunFlow request runs the flow with cause direct
RunFlowRequest(flowId, tabId) ==
  /\ signal = NoSignal
  /\ runs' = <<RunFlowCall(flowId, tabId, "direct", "request")>>
  /\ signal' = [kind |-> "runFlow", tabId |-> tabId, status |-> "", arg |-> flowId]
  /\ UNCHANGED <<tasks, flows, triggers, logs, overlap, notRunVars>>

(***************************************************************************)
(* The persisted data the behaviours start from                            *)
(***************************************************************************)
TasksInit ==
  << Task("t1", <<Step("s1", "click"), Step("s2", "input")>>),
     Task("t2", <<Step("s3", "wait")>>) >>

\* Spec: two triggers match one navigation, the flows are of different lengths
InitRun ==
  /\ tasks = TasksInit
  /\ \E ids1 \in {<<"t1">>, <<"tX", "t2">>, <<"t2", "tX", "t1">>},
        ids2 \in {<<"t2">>, <<"tX">>} :
       flows = << Flow("f1", ids1, <<>>, TRUE), Flow("f2", ids2, <<>>, TRUE) >>
  /\ triggers = << Trigger("tr1", "url", "f1", "example.com", "", TRUE),
                   Trigger("tr2", "url", "f2", "^https", "", TRUE),
                   Trigger("tr3", "shortcut", "f1", "", "c1", TRUE) >>
  /\ logs = <<>>
  /\ runs = <<>>
  /\ signal = NoSignal
  /\ overlap = FALSE
  /\ PageIdle
  /\ DelIdle
  /\ ExtIdle
  /\ RecIdle

\* SpecTrig: the triggers and the flows vary, the flows are short
InitTrig ==
  /\ tasks = TasksInit
  /\ \E e1 \in BOOLEAN, p1 \in {<<>>, <<"example.com">>},
        f2 \in {<<TRUE, <<>>>>, <<TRUE, <<"example.com", "^https">>>>,
                <<TRUE, <<"(b">>>>, <<FALSE, <<"^https">>>>} :
       flows = << Flow("f1", <<"t2">>, p1, e1), Flow("f2", <<"tX">>, f2[2], f2[1]) >>
  /\ \E ty1 \in {"url", "shortcut"},
        b1 \in {<<"f1", TRUE>>, <<"f1", FALSE>>, <<"fX", TRUE>>},
        v2 \in {<<"url", "^https", "">>, <<"url", "(b", "">>,
                <<"shortcut", "", "c1">>, <<"shortcut", "", "c2">>} :
       triggers =
         << Trigger("tr1", ty1, b1[1], IF ty1 = "url" THEN "example.com" ELSE "",
                    IF ty1 = "shortcut" THEN "c1" ELSE "", b1[2]),
            Trigger("tr2", v2[1], "f1", v2[2], v2[3], TRUE),
            Trigger("tr3", "manual", "f1", "example.com", "c1", TRUE) >>
  /\ logs = <<>>
  /\ runs = <<>>
  /\ signal = NoSignal
  /\ overlap = FALSE
  /\ PageIdle
  /\ DelIdle
  /\ ExtIdle
  /\ RecIdle

RunNext ==
  \/ \E t \in Tabs, st \in TabStatuses, u \in Urls \cup {""} : TabUpdated(t, st, u)
  \/ \E c \in Commands : Command(c)
  \/ \E f \in FlowIds, t \in Tabs \cup {NoTab} : RunFlowRequest(f, t)
  \/ \E r \in 1..Len(runs) : RunStart(r)
  \/ \E r \in 1..Len(runs), o \in Outcomes : StepResult(r, o)
  \/ \E r \in 1..Len(runs) : LogRead(r)
  \/ \E r \in 1..Len(runs) : LogWrite(r)
  \/ \E r \in 1..Len(runs) : FinRead(r)
  \/ \E r \in 1..Len(runs) : FinWrite(r)

\* the flow runner when the accesses to storage.local can fail
FailNext ==
  \/ RunNext
  \/ \E r \in 1..Len(runs) : StartFails(r)
  \/ \E r \in 1..Len(runs) : LogFails(r)
  \/ \E r \in 1..Len(runs) : FinFails(r)

SpecFail == InitRun /\ [][FailNext]_vars

Init == InitRun

Next == RunNext

Spec == Init /\ [][Next]_vars

SpecTrig == InitTrig /\ [][Next]_vars

(***************************************************************************)
(* Properties of the flow runner                                           *)
(***************************************************************************)
\* the persisted entries with a given log id
LogsOf(stored, id) == SelectSeq(stored, LAMBDA l : l.id = id)

\* runFlow invocation r returns in this step: its finalizing write is done
Returns(r) == runs[r].pc = "finWrite" /\ runs'[r].pc = "done"

\* position of the first step the executor reported as failed, 0 if none
FirstNg(run) ==
  IF \E k \in 1..Len(run.results) : run.results[k] = "ng"
  THEN CHOOSE k \in 1..Len(run.results) :
         run.results[k] = "ng" /\ \A j \in 1..(k-1) : run.results[j] # "ng"
  ELSE 0

AllOk(run) ==
  /\ Len(run.results) = Len(run.steps)
  /\ \A k \in 1..Len(run.results) : run.results[k] = "ok"

\* k-1 success entries followed by one failed entry with the executor's message
FailedStepLogs(run, k) ==
  [j \in 1..k |-> IF j < k THEN StepRunLog(run.steps[j], "success", "")
                            ELSE StepRunLog(run.steps[k], "failed", "ng")]

SuccessStepLogs(run) ==
  [j \in 1..Len(run.steps) |-> StepRunLog(run.steps[j], "success", "")]

\* C1: when the step at position k is the first the executor reports as failed,
\* no later step is ever sent to the tab (k steps sent, k answers), and when
\* runFlow returns the persisted log of the run has status failed and holds
\* exactly k-1 success entries followed by the failed entry with the
\* executor's errorMessage.
C1_FirstFailureEndsRun ==
  /\ [](\A r \in 1..Len(runs) :
          FirstNg(runs[r]) # 0 =>
            /\ runs[r].i = FirstNg(runs[r])
            /\ Len(runs[r].results) = FirstNg(runs[r]))
  /\ [][\A r \in 1..Len(runs) :
          (Returns(r) /\ FirstNg(runs[r]) # 0) =>
            /\ Len(LogsOf(logs', r)) = 1
            /\ LogsOf(logs', r)[1].status = "failed"
            /\ LogsOf(logs', r)[1].stepLogs = FailedStepLogs(runs[r], FirstNg(runs[r]))]_vars

\* a run of three flattened steps failed at its second step and has returned
C1_Witness ==
  \E r \in 1..Len(runs) :
    /\ runs[r].pc = "done"
    /\ Len(runs[r].steps) = 3
    /\ runs[r].results = <<"ok", "ng">>
    /\ runs[r].i = 2
    /\ \E k \in 1..Len(logs) : logs[k].id = r /\ logs[k].status = "failed"

\* C2: when every step of the flattened sequence succeeds, runFlow returns with
\* a persisted log of status success whose stepLogs are one success entry per
\* flattened step, in flattened order.
C2_AllSucceedLogsSuccess ==
  [][\A r \in 1..Len(runs) :
       (Returns(r) /\ AllOk(runs[r])) =>
         /\ Len(LogsOf(logs', r)) = 1
         /\ LogsOf(logs', r)[1].status = "success"
         /\ LogsOf(logs', r)[1].stepLogs = SuccessStepLogs(runs[r])]_vars

\* a run of three flattened steps, all answered with success, has returned
C2_Witness ==
  \E r \in 1..Len(runs) :
    /\ runs[r].pc = "done"
    /\ Len(runs[r].steps) = 3
    /\ runs[r].results = <<"ok", "ok", "ok">>
    /\ \E k \in 1..Len(logs) : logs[k].id = r /\ logs[k].status = "success"

\* the log a finished run recorded: one entry per answered step, and its status
ExpectedStepLogs(run) ==
  [j \in 1..Len(run.results) |->
     IF run.results[j] = "ok" THEN StepRunLog(run.steps[j], "success", "")
     ELSE StepRunLog(run.steps[j], "failed", ErrorOf(run.results[j]))]

ExpectedStatus(run) ==
  IF \A k \in 1..Len(run.results) : run.results[k] = "ok" THEN "success" ELSE "failed"

IsPrefix(a, b) == Len(a) <= Len(b) /\ \A k \in 1..Len(a) : a[k] = b[k]

Finished(r) == runs[r].pc \in {"done", "rejected"}

\* one navigation-complete event started at least two runs and every run is over
ConcurrentNavOver ==
  /\ signal.kind = "nav"
  /\ Len(runs) >= 2
  /\ \A r \in 1..Len(runs) : Finished(r)

HasFinalLog(r) ==
  /\ Len(LogsOf(logs, r)) = 1
  /\ LogsOf(logs, r)[1].status = ExpectedStatus(runs[r])
  /\ LogsOf(logs, r)[1].status \in {"success", "failed"}
  /\ LogsOf(logs, r)[1].stepLogs = ExpectedStepLogs(runs[r])

\* C5 as stated: after the concurrent runs of one navigation event have finished,
\* the persisted list holds one log per run with the run's final status and its
\* complete stepLogs, whatever the interleaving of the log writes.
C5_EveryRunLoggedAnyInterleaving ==
  ConcurrentNavOver => \A r \in 1..Len(runs) : runs[r].pc = "done" => HasFinalLog(r)

\* C5 amended: after the concurrent runs of one navigation event have finished,
\* the persisted list holds at most one log per run, every persisted log is a
\* version of its own run's log (a prefix of its stepLogs, status partial or the
\* run's own final status), and every run has its final log persisted whenever
\* no upsertLog wrote a list it had read before another write.
C5_RunsLoggedUnlessWritesOverlap ==
  ConcurrentNavOver =>
    /\ \A r \in 1..Len(runs) : Len(LogsOf(logs, r)) <= 1
    /\ \A k \in 1..Len(logs) :
         /\ logs[k].id \in 1..Len(runs)
         /\ logs[k].flowId = runs[logs[k].id].flowId
         /\ IsPrefix(logs[k].stepLogs, ExpectedStepLogs(runs[logs[k].id]))
         /\ logs[k].status \in {"partial", ExpectedStatus(runs[logs[k].id])}
    /\ ~overlap => \A r \in 1..Len(runs) : runs[r].pc = "done" => HasFinalLog(r)

\* two runs of one navigation event, one failed and one succeeded, both logged
C5_Witness ==
  /\ ConcurrentNavOver
  /\ ~overlap
  /\ \E r1, r2 \in 1..Len(runs) :
       /\ r1 # r2
       /\ runs[r1].pc = "done" /\ runs[r2].pc = "done"
       /\ HasFinalLog(r1) /\ HasFinalLog(r2)
       /\ LogsOf(logs, r1)[1].status = "failed"
       /\ LogsOf(logs, r2)[1].status = "success"

(***************************************************************************)
(* Properties of the trigger matcher                                       *)
(***************************************************************************)
TriggerIdx == 1..Len(triggers)

\* the enabled url triggers whose pattern matches the url
MatchingUrlTriggers(url) ==
  {k \in TriggerIdx : /\ triggers[k].enabled /\ triggers[k].type = "url"
                       /\ matchUrlPattern(triggers[k].urlPattern, url)}

FlowOf(flowId) == {i \in 1..Len(flows) : flows[i].id = flowId}

\* the signal is a navigation-complete event whose URL matches the pattern of
\* exactly one enabled url trigger, bound to an enabled flow that has no
\* auto-run patterns of its own
OneUrlTriggerMatches ==
  /\ signal.kind = "nav" /\ signal.status = "complete" /\ signal.arg # ""
  /\ Cardinality(MatchingUrlTriggers(signal.arg)) = 1
  /\ \A k \in MatchingUrlTriggers(signal.arg) :
       /\ FlowOf(triggers[k].flowId) # {}
       /\ \A i \in FlowOf(triggers[k].flowId) :
            flows[i].enabled /\ flows[i].autoRunUrlPatterns = <<>>

\* no enabled flow has an auto-run pattern of its own that matches the url
NoFlowSelfTriggers ==
  \A i \in 1..Len(flows) :
    flows[i].enabled =>
      \A k \in 1..Len(flows[i].autoRunUrlPatterns) :
        ~matchUrlPattern(flows[i].autoRunUrlPatterns[k], signal.arg)

AllFinished == \A r \in 1..Len(runs) : Finished(r)

\* C8 as stated: for a navigation-complete event whose URL matches exactly one
\* enabled url trigger bound to an enabled flow without auto-run patterns, exactly
\* one new log is created (never more, and one once the runs are over), and it
\* has triggeredBy = url.
C8_OneMatchOneLog ==
  OneUrlTriggerMatches =>
    /\ Len(logs) <= 1
    /\ AllFinished => Len(logs) = 1 /\ logs[1].triggeredBy = "url"

\* C8 amended: the same, provided no enabled flow matches the URL by an auto-run
\* pattern of its own (such a flow is run and logged as well).
C8_OneMatchOneLogNoSelfTrigger ==
  (OneUrlTriggerMatches /\ NoFlowSelfTriggers) =>
    /\ Len(logs) <= 1
    /\ \A k \in 1..Len(logs) : logs[k].triggeredBy = "url"
    /\ AllFinished =>
         /\ Len(logs) = 1
         /\ logs[1].triggeredBy = "url"
         /\ \A k \in MatchingUrlTriggers(signal.arg) : logs[1].flowId = triggers[k].flowId

\* the event matched one trigger by the substring fallback; its one-step flow ran
\* and its log is persisted
C8_Witness ==
  /\ OneUrlTriggerMatches /\ NoFlowSelfTriggers
  /\ \A k \in MatchingUrlTriggers(signal.arg) : triggers[k].urlPattern = "(b"
  /\ AllFinished
  /\ Len(runs) = 1 /\ Len(runs[1].steps) = 1
  /\ Len(logs) = 1 /\ logs[1].triggeredBy = "url" /\ logs[1].status = "success"

\* the runs the command signal started for trigger k with cause shortcut
ShortcutRunsOf(k) ==
  {r \in 1..Len(runs) : /\ runs[r].trig = triggers[k].id
                         /\ runs[r].by = "shortcut"
                         /\ runs[r].flowId = triggers[k].flowId}

NamedShortcut(k, command) ==
  /\ triggers[k].enabled
  /\ triggers[k].type = "shortcut"
  /\ triggers[k].shortcutName = command

\* C9 as stated: on a command signal c one run with cause shortcut is started for
\* every enabled shortcut trigger whose shortcutName is c, and none for any
\* other trigger.
C9_EveryNamedShortcutFires ==
  signal.kind = "command" =>
    /\ \A k \in TriggerIdx :
         Cardinality(ShortcutRunsOf(k)) = IF NamedShortcut(k, signal.arg) THEN 1 ELSE 0
    /\ \A r \in 1..Len(runs) : \E k \in TriggerIdx : r \in ShortcutRunsOf(k)

\* C9 amended: on a command signal c one run with cause shortcut is started for
\* every enabled shortcut trigger whose shortcutName is c and whose flow exists
\* and is enabled, and none for any other trigger.
C9_NamedShortcutOfEnabledFlowFires ==
  signal.kind = "command" =>
    /\ \A k \in TriggerIdx :
         Cardinality(ShortcutRunsOf(k)) =
           IF /\ NamedShortcut(k, signal.arg)
              /\ \E i \in FlowOf(triggers[k].flowId) : flows[i].enabled
           THEN 1 ELSE 0
    /\ \A r \in 1..Len(runs) : \E k \in TriggerIdx : r \in ShortcutRunsOf(k)

\* command c1 fired tr1 while tr2 (another command name) and tr3 (same name,
\* type manual) stayed silent
C9_Witness ==
  /\ signal.kind = "command" /\ signal.arg = "c1"
  /\ NamedShortcut(1, "c1")
  /\ triggers[2].type = "shortcut" /\ triggers[2].shortcutName = "c2"
  /\ Len(runs) = 1 /\ runs[1].trig = "tr1" /\ runs[1].by = "shortcut"
  /\ runs[1].pc = "done"

\* the task ids of the flow a run was called for (the flows do not change
\* during a run of these specifications)
TaskIdsOf(run) == flows[CHOOSE i \in FlowOf(run.flowId) : TRUE].taskIds

IsKnownTask(taskId) == \E t \in Range(tasks) : t.id = taskId

RECURSIVE StepsOfKnown(_)
\* the steps of the stored tasks among taskIds, in the order of taskIds
StepsOfKnown(taskIds) ==
  IF taskIds = <<>> THEN <<>>
  ELSE (IF IsKnownTask(Head(taskIds))
        THEN (CHOOSE t \in Range(tasks) : t.id = Head(taskIds)).steps ELSE <<>>)
       \o StepsOfKnown(Tail(taskIds))

HasDangling(run) == \E k \in 1..Len(TaskIdsOf(run)) : ~IsKnownTask(TaskIdsOf(run)[k])

Flattened(r) == runs[r].pc \notin {"start", "rejected"}

\* C19: a flow whose taskIds contain ids of deleted or unknown tasks runs
\* without error: those ids contribute no steps, the steps of the remaining
\* tasks are executed in taskIds order, and a flow with only dangling references
\* finishes with status success and empty stepLogs.
C19_DanglingTaskIdsContributeNothing ==
  /\ [](\A r \in 1..Len(runs) :
          /\ runs[r].pc = "rejected" =>
               runs[r].error \in {"Flow not found", "No active tab found"}
          /\ Flattened(r) =>
               /\ runs[r].steps = StepsOfKnown(TaskIdsOf(runs[r]))
               /\ IsPrefix(runs[r].flowLog.stepLogs, ExpectedStepLogs(runs[r])))
  /\ [][\A r \in 1..Len(runs) :
          (Returns(r) /\ StepsOfKnown(TaskIdsOf(runs[r])) = <<>>) =>
            /\ Len(LogsOf(logs', r)) = 1
            /\ LogsOf(logs', r)[1].status = "success"
            /\ LogsOf(logs', r)[1].stepLogs = <<>>]_vars

\* a flow referring to t2, an unknown task and t1 ran the steps of t2 and then
\* those of t1, and a flow with only an unknown task finished with a success
\* log without step logs
C19_Witness ==
  /\ Len(runs) = 2
  /\ runs[1].pc = "done" /\ runs[2].pc = "done"
  /\ TaskIdsOf(runs[1]) = <<"t2", "tX", "t1">>
  /\ runs[1].steps = <<Step("s3", "wait"), Step("s1", "click"), Step("s2", "input")>>
  /\ runs[1].results = <<"ok", "ok", "ok">>
  /\ TaskIdsOf(runs[2]) = <<"tX">>
  /\ runs[2].steps = <<>>
  /\ runs[2].flowLog.status = "success" /\ runs[2].flowLog.stepLogs = <<>>
  /\ \E k \in 1..Len(logs) : logs[k] = runs[2].flowLog

(***************************************************************************)
(* Step executor of the page (content/executor)                            *)
(***************************************************************************)
Elements == {"eBtn", "eInput", "eForm"}
IsForm(el) == el = "eForm"

\* document.querySelector(css): the element a selector denotes, if it is present;
\* querySelector throws for a selector that is not valid CSS
CssInvalid == {"??"}
CssTarget(css) ==
  CASE css = "#btn" -> "eBtn"
    [] css = "#name" -> "eInput"
    [] css = "form.login" -> "eForm"
    [] OTHER -> NoElement

\* document.evaluate(xpath, ...).singleNodeValue; evaluate throws for a bad path
XPathInvalid == {"/html["}
XPathTarget(xpath) ==
  CASE xpath = "/html/body/button[1]" -> "eBtn"
    [] xpath = "/html/body/input[1]" -> "eInput"
    [] xpath = "/html/body/form[1]" -> "eForm"
    [] OTHER -> NoElement

findByCss(css, d) ==
  IF css \in CssInvalid THEN NoElement
  ELSE IF CssTarget(css) \in d THEN CssTarget(css) ELSE NoElement

findByXPath(xpath, d) ==
  IF xpath = "" THEN NoElement
  ELSE IF xpath \in XPathInvalid THEN NoElement
  ELSE IF XPathTarget(xpath) \in d THEN XPathTarget(xpath) ELSE NoElement

\* index.ts 154-157: the XPath is consulted only when the selector has no css
resolveElement(selector, d) ==
  IF ~selector.present THEN NoElement
  ELSE IF selector.css # "" THEN findByCss(selector.css, d)
       ELSE findByXPath(selector.xpath, d)

MaxAttempts == 5       \* waitForElement(selector, attempts = 5, intervalMs = 500)

Selector(css, xpath) == [css |-> css, xpath |-> xpath, present |-> TRUE]

ExecStep(id, type, selector, waitMs, script) ==
  [id |-> id, type |-> type, selector |-> selector, waitMs |-> waitMs, script |-> script]

StepTypes == {"click", "input", "wait", "submit", "custom-js", "hover"}

Selectors ==
  { NoSelector,
    Selector("#btn", "/html/body/button[1]"),
    Selector("#gone", "/html/body/button[1]"),
    Selector("#name", ""),
    Selector("", "/html/body/form[1]"),
    Selector("??", "/html["),
    Selector("form.login", "/html/body/form[1]") }

\* what step.meta.script does when run: absent, returns, or throws a value
Scripts == {"absent", "returns", "throwsError", "throwsString", "throwsNull"}

\* the ExecuteStep messages of the model
ExecSteps ==
  {ExecStep("s1", t, sel, w, "absent") :
     t \in StepTypes \ {"custom-js"}, sel \in Selectors, w \in {0, 300}}
  \cup {ExecStep("s2", "custom-js", NoSelector, 0, sc) : sc \in Scripts}

StepResultMessage(stepId, success, errorMessage) ==
  [type |-> "STEP_RESULT", stepId |-> stepId, success |-> success,
   errorMessage |-> errorMessage]

\* index.ts 187, 196: step.selector?.css || step.selector?.xpath || "unknown"
selectorStr(selector) ==
  IF selector.present /\ selector.css # "" THEN selector.css
  ELSE IF selector.present /\ selector.xpath # "" THEN selector.xpath
  ELSE "unknown"

\* a message is a text and the values interpolated into it; a response without
\* errorMessage carries NoMessage
NoMessage == <<>>

\* the values runStep can throw
Thrown(kind, message) == [kind |-> kind, message |-> message]

\* index.ts 238-242: the listener's catch block and sendResponse.  Reading
\* .message of a thrown null or undefined throws inside the catch block: the
\* exception leaves the async function and sendResponse is never reached; a
\* thrown value that is no Error has no message
Fail(thrown) ==
  IF thrown.kind = "null"
  THEN /\ exe' = [exe EXCEPT !.pc = "escaped"]
       /\ UNCHANGED responses
  ELSE /\ exe' = [exe EXCEPT !.pc = "finished"]
       /\ responses' = Append(responses,
            StepResultMessage(exe.step.id, FALSE,
                              IF thrown.kind = "error" THEN thrown.message
                              ELSE NoMessage))

\* index.ts 231-242: runStep returned; the response built with success = true is sent
Succeed ==
  /\ exe' = [exe EXCEPT !.pc = "finished"]
  /\ responses' = Append(responses, StepResultMessage(exe.step.id, TRUE, NoMessage))

\* index.ts 228-237, 176-179: an ExecuteStep message arrives; runStep starts and
\* waits step.waitMs first when it is positive
Receive(step) ==
  /\ exe.pc = "idle"
  /\ exe' = [exe EXCEPT !.step = step,
                         !.pc = IF step.waitMs > 0 THEN "preWait" ELSE "dispatch"]
  /\ UNCHANGED <<dom, responses, effects, notExeVars>>

\* index.ts 178: the wait before the step is over
PreWaitDone ==
  /\ exe.pc = "preWait"
  /\ exe' = [exe EXCEPT !.pc = "dispatch"]
  /\ UNCHANGED <<dom, responses, effects, notExeVars>>

\* index.ts 180-225: the switch on step.type, up to the first await of its case
Dispatch ==
  /\ exe.pc = "dispatch"
  /\ CASE exe.step.type = "wait" ->
            exe' = [exe EXCEPT !.pc = "sleep"] /\ UNCHANGED <<responses, effects>>
       [] exe.step.type \in {"click", "input", "submit"} ->
            \* waitForElement: without a selector it returns null at once
            IF ~exe.step.selector.present
            THEN exe' = [exe EXCEPT !.pc = "resolved"] /\ UNCHANGED <<responses, effects>>
            ELSE exe' = [exe EXCEPT !.pc = "attempt"] /\ UNCHANGED <<responses, effects>>
       [] exe.step.type = "custom-js" ->
            IF exe.step.script = "absent"
            THEN Fail(Thrown("error", <<"No custom script provided">>)) /\ UNCHANGED effects
            ELSE IF exe.step.script = "returns"
            THEN Succeed /\ effects' = Append(effects, <<"script", "ran">>)
            ELSE /\ Fail(Thrown(CASE exe.step.script = "throwsError" -> "error"
                                   [] exe.step.script = "throwsString" -> "string"
                                   [] OTHER -> "null",
                                <<"script failed">>))
                 /\ effects' = Append(effects, <<"script", "threw">>)
       [] OTHER ->
            Fail(Thrown("error", <<"Unsupported step type: ", exe.step.type>>))
            /\ UNCHANGED effects
  /\ UNCHANGED <<dom, notExeVars>>

\* index.ts 182: the wait step's sleep is over
SleepDone ==
  /\ exe.pc = "sleep"
  /\ Succeed
  /\ UNCHANGED <<dom, effects, notExeVars>>

\* index.ts 161-167: one attempt of waitForElement; a miss before the last
\* attempt is followed by a wait of intervalMs
Attempt ==
  /\ exe.pc = "attempt"
  /\ LET el == resolveElement(exe.step.selector, dom)
         n == exe.attempt + 1
     IN exe' = [exe EXCEPT !.attempt = n, !.found = el, !.domAt = dom,
                           !.pc = IF el # NoElement \/ n >= MaxAttempts
                                  THEN "resolved" ELSE "interval"]
  /\ UNCHANGED <<dom, responses, effects, notExeVars>>

\* index.ts 165: the wait between two attempts is over
IntervalDone ==
  /\ exe.pc = "interval"
  /\ exe' = [exe EXCEPT !.pc = "attempt"]
  /\ UNCHANGED <<dom, responses, effects, notExeVars>>

\* index.ts 185-213: waitForElement returned; the element is acted on, or the
\* step throws because there is none
ActOnElement ==
  /\ exe.pc = "resolved"
  /\ IF exe.found = NoElement
     THEN /\ Fail(Thrown("error",
                 IF exe.step.type = "submit" THEN <<"Element not found for submit">>
                 ELSE <<"Element not found. Selector: ", exe.step.type,
                        selectorStr(exe.step.selector)>>))
          /\ UNCHANGED effects
     ELSE /\ Succeed
          /\ effects' = effects \o
               (CASE exe.step.type = "click" -> << <<exe.found, "click">> >>
                  [] exe.step.type = "input" ->
                       << <<exe.found, "focus">>, <<exe.found, "value">>,
                          <<exe.found, "input">>, <<exe.found, "change">> >>
                  [] OTHER ->
                       IF IsForm(exe.found) THEN << <<exe.found, "requestSubmit">> >>
                       ELSE << <<exe.found, "submit">> >>)
  /\ UNCHANGED <<dom, notExeVars>>

\* the page changes between two steps of the executor: an element appears or goes
DomChange(el) ==
  /\ exe.pc \in {"preWait", "interval"}
  /\ dom' = IF el \in dom THEN dom \ {el} ELSE dom \cup {el}
  /\ UNCHANGED <<exe, responses, effects, notExeVars>>

InitExec ==
  /\ RunIdle
  /\ DelIdle
  /\ ExtIdle
  /\ RecIdle
  /\ dom \in SUBSET Elements
  /\ exe = ExeIdle
  /\ responses = <<>>
  /\ effects = <<>>

ExecNext ==
  \/ \E step \in ExecSteps : Receive(step)
  \/ PreWaitDone
  \/ Dispatch
  \/ SleepDone
  \/ Attempt
  \/ IntervalDone
  \/ ActOnElement
  \/ \E el \in Elements : DomChange(el)

SpecExec == InitExec /\ [][ExecNext]_vars

(***************************************************************************)
(* Properties of the step executor                                         *)
(***************************************************************************)
\* the executor is through with the message it received
Handled == exe.pc \in {"finished", "escaped"}

WellFormedResult(m) ==
  /\ m.type = "STEP_RESULT"
  /\ m.stepId = exe.step.id
  /\ m.success \/ m.errorMessage # NoMessage

\* C6: for every ExecuteStep message, whatever the step, the executor sends
\* exactly one StepResult carrying the step's id, with success = true on success
\* and success = false plus an errorMessage on failure; no failure escapes the
\* executor as an exception or leaves the request unanswered.
C6_ExactlyOneStepResult ==
  /\ exe.pc # "escaped"
  /\ Len(responses) <= 1
  /\ exe.pc = "finished" =>
       /\ Len(responses) = 1
       /\ WellFormedResult(responses[1])

\* the step's locator has both parts, and in the document the last attempt saw
\* the CSS selector matches nothing while the XPath matches an element
PrimaryFailsSecondaryResolves ==
  /\ exe.attempt >= 1
  /\ exe.step.selector.present
  /\ exe.step.selector.css # ""
  /\ exe.step.selector.xpath # ""
  /\ findByCss(exe.step.selector.css, exe.domAt) = NoElement
  /\ findByXPath(exe.step.selector.xpath, exe.domAt) # NoElement

\* the primary selector first, the XPath whenever the primary resolves nothing
FallbackResolution(selector, d) ==
  IF ~selector.present THEN NoElement
  ELSE IF selector.css # "" /\ findByCss(selector.css, d) # NoElement
       THEN findByCss(selector.css, d)
       ELSE findByXPath(selector.xpath, d)

\* C7: when a locator carries both a CSS selector and an XPath and the CSS
\* selector matches no element while the XPath does, resolution returns the
\* element the XPath finds; the XPath is tried whenever the CSS selector fails
\* to resolve, and only then.
C7_XPathFallbackWhenCssFails ==
  /\ PrimaryFailsSecondaryResolves =>
       exe.found = findByXPath(exe.step.selector.xpath, exe.domAt)
  /\ exe.attempt >= 1 =>
       exe.found = FallbackResolution(exe.step.selector, exe.domAt)

\* the step the executor handles resolves a locator
ResolvingStep == exe.step.type \in {"click", "input", "submit"}

\* the executor answered that it found no element
ElementNotFoundReported ==
  /\ exe.pc = "finished"
  /\ Len(responses) = 1
  /\ ~responses[1].success
  /\ responses[1].errorMessage # NoMessage
  /\ responses[1].errorMessage[1] \in {"Element not found. Selector: ",
                                       "Element not found for submit"}

\* C15: for click, input and submit steps the executor tries to resolve the
\* locator at most 5 times and stops at the first attempt that resolves: an
\* element that an attempt resolves is acted on and the step succeeds, and an
\* element-not-found failure is reported only after 5 attempts all found nothing.
C15_FiveAttemptsFirstHitWins ==
  ResolvingStep =>
    /\ exe.attempt <= 5
    /\ exe.pc \in {"attempt", "interval"} => exe.found = NoElement
    /\ (exe.pc = "finished" /\ exe.found # NoElement) =>
         /\ Len(responses) = 1 /\ responses[1].success
         /\ effects # <<>> /\ effects[1][1] = exe.found
    /\ ElementNotFoundReported => (exe.attempt = 5 /\ exe.found = NoElement)

(***************************************************************************)
(* DeleteFlow and its cascade to the triggers (background/index, storage)  *)
(***************************************************************************)
\* a deleteTrigger call in flight: before its read, between read and write, over
SubDelete(triggerId) == [id |-> triggerId, pc |-> "read", snap |-> <<>>]

idsOf(trigs) == [k \in 1..Len(trigs) |-> trigs[k].id]

\* part_002 572-619, 179-180: dispatch hands a DeleteFlow message to
\* handleDeleteFlow, which calls deleteFlow; deleteFlow asks for the flows
DeleteFlowRequest(flowId) ==
  /\ del.pc = "idle"
  /\ del' = [del EXCEPT !.pc = "flowRead", !.flowId = flowId, !.before = triggers]
  /\ UNCHANGED <<flows, triggers, notDelVars>>

\* storage.ts 104: getFlows answers
DelFlowRead ==
  /\ del.pc = "flowRead"
  /\ del' = [del EXCEPT !.pc = "flowWrite", !.snap = flows]
  /\ UNCHANGED <<flows, triggers, notDelVars>>

\* storage.ts 105-108: the flows without the deleted one are written;
\* part_002 181: handleDeleteFlow asks for the triggers
DelFlowWrite ==
  /\ del.pc = "flowWrite"
  /\ flows' = SelectSeq(del.snap, LAMBDA f : f.id # del.flowId)
  /\ del' = [del EXCEPT !.pc = "trigRead", !.snap = <<>>]
  /\ UNCHANGED <<triggers, notDelVars>>

\* part_002 181-183: getTriggers answers; the ids of the triggers of the flow
\* are computed and one deleteTrigger call per id is started, all awaited together
DelTrigRead ==
  /\ del.pc = "trigRead"
  /\ LET orphanTriggerIds ==
           idsOf(SelectSeq(triggers, LAMBDA t : t.flowId = del.flowId))
     IN del' = [del EXCEPT !.pc = "all", !.orphans = orphanTriggerIds,
                           !.subs = [k \in 1..Len(orphanTriggerIds) |->
                                       SubDelete(orphanTriggerIds[k])]]
  /\ UNCHANGED <<flows, triggers, notDelVars>>

\* storage.ts 142: getTriggers answers one deleteTrigger call
DelTriggerRead(j) ==
  /\ del.pc = "all"
  /\ j \in 1..Len(del.subs)
  /\ del.subs[j].pc = "read"
  /\ del' = [del EXCEPT !.subs[j].pc = "write", !.subs[j].snap = triggers]
  /\ UNCHANGED <<flows, triggers, notDelVars>>

\* storage.ts 143-144: the call writes the list it read, without its trigger
DelTriggerWrite(j) ==
  /\ del.pc = "all"
  /\ j \in 1..Len(del.subs)
  /\ del.subs[j].pc = "write"
  /\ triggers' = SelectSeq(del.subs[j].snap, LAMBDA t : t.id # del.subs[j].id)
  /\ del' = [del EXCEPT !.subs[j].pc = "done", !.subs[j].snap = <<>>]
  /\ UNCHANGED <<flows, notDelVars>>

\* part_002 183-184: every deleteTrigger call is over; the handler answers ok
DelDone ==
  /\ del.pc = "all"
  /\ \A j \in 1..Len(del.subs) : del.subs[j].pc = "done"
  /\ del' = [del EXCEPT !.pc = "done"]
  /\ UNCHANGED <<flows, triggers, notDelVars>>

MaxTriggers == 3

InitDelete ==
  /\ tasks = TasksInit
  /\ flows = << Flow("f1", <<"t1">>, <<>>, TRUE), Flow("f2", <<"t2">>, <<>>, TRUE) >>
  /\ \E n \in 1..MaxTriggers : \E owner \in [1..n -> {"f1", "f2"}] :
       triggers = [k \in 1..n |->
                     Trigger(<<"tr", k>>, "url", owner[k], "example.com", "", TRUE)]
  /\ logs = <<>>
  /\ runs = <<>>
  /\ signal = NoSignal
  /\ overlap = FALSE
  /\ PageIdle
  /\ DelIdle
  /\ ExtIdle
  /\ RecIdle

DeleteNext ==
  \/ \E flowId \in FlowIds : DeleteFlowRequest(flowId)
  \/ DelFlowRead
  \/ DelFlowWrite
  \/ DelTrigRead
  \/ \E j \in 1..MaxTriggers : DelTriggerRead(j)
  \/ \E j \in 1..MaxTriggers : DelTriggerWrite(j)
  \/ DelDone

SpecDelete == InitDelete /\ [][DeleteNext]_vars

\* C3: after a DeleteFlow request for flow F completes, no persisted trigger has
\* flowId = F, however many triggers referenced F, and every trigger of a
\* different flow is still present and unchanged.
C3_DeleteFlowRemovesItsTriggers ==
  del.pc = "done" =>
    /\ \A k \in 1..Len(triggers) : triggers[k].flowId # del.flowId
    /\ \A k \in 1..Len(del.before) :
         del.before[k].flowId # del.flowId => del.before[k] \in Range(triggers)

(***************************************************************************)
(* Recording buffers and the recording handlers (background/index, storage)*)
(***************************************************************************)
MaxHandlers == 2     \* requests and RecordStep messages handled in one behaviour

LlmKinds == {"prompt", "conv"}
StartKinds == {"start", "prompt", "conv"}

NoTask == Task("", <<>>)
NoStep == Step("", "")
NoResponse == [type |-> "", detail |-> ""]
Response(type, detail) == [type |-> type, detail |-> detail]

\* a call of a handler: its position, its locals, and the response it returned
Handler(kind, step) ==
  [kind |-> kind, pc |-> "tab", phase |-> "", tabId |-> NoTab, buf |-> NoBuf,
   step |-> step, task |-> NoTask, convId |-> "", steps |-> <<>>, i |-> 0,
   sent |-> <<>>, outcomes |-> <<>>, executed |-> <<>>, snap |-> <<>>,
   result |-> NoResponse, stopRejected |-> FALSE]

Returned(hr, response) == [hr EXCEPT !.pc = "done", !.result = response, !.snap = <<>>]

\* part_002 114-119, 284-289, 409-414: a buffer without steps
RecordingBuffer(tabId, sessionId) ==
  [tabId |-> tabId, sessionId |-> sessionId, steps |-> <<>>]

\* storage.ts 156-159: getRecordingBuffer's find
findBuffer(buffers, tabId) == FindIndex(buffers, LAMBDA b : b.tabId = tabId)

\* storage.ts 186-195: upsertRecordingBuffer, from the list read to the list written
upsertBufferInto(buffers, buffer) ==
  LET idx == findBuffer(buffers, buffer.tabId)
  IN IF idx # NoIdx THEN [buffers EXCEPT ![idx] = buffer] ELSE Append(buffers, buffer)

\* storage.ts 197-201: removeRecordingBuffer, from the list read to the list written
removeBufferFrom(buffers, tabId) == SelectSeq(buffers, LAMBDA b : b.tabId # tabId)

\* storage.ts 69-78: saveTask, from the list read to the list written
upsertTaskInto(taskList, task) ==
  LET idx == FindIndex(taskList, LAMBDA t : t.id = task.id)
  IN IF idx # NoIdx THEN [taskList EXCEPT ![idx] = task] ELSE Append(taskList, task)

\* the steps of the buffer object a handler holds
StepsOf(b) == IF b = NoBuf THEN <<>> ELSE heap[b].steps

\* part_002 572-577: dispatch hands a StartRecording or StopRecording message to
\* its handler, which asks for the active tab
RecRequest(kind) ==
  /\ Len(hs) < MaxHandlers
  /\ hs' = Append(hs, Handler(kind, NoStep))
  /\ UNCHANGED <<heap, recordingBuffers, storedBuffers, conversationStates, storedConvs,
                 channel, recording, tasks, notRecVars>>

\* part_002 113-121: the active tab is known (or there is none: the handler
\* throws and the listener answers with the error); a buffer without steps is
\* made, put in the map, and its upsert is started
StartGotTab(h) ==
  /\ h \in 1..Len(hs)
  /\ hs[h].kind = "start" /\ hs[h].pc = "tab"
  /\ \E active \in Tabs \cup {NoTab} :
       IF active = NoTab
       THEN /\ hs' = [hs EXCEPT ![h] = Returned(@, Response("error", "No active tab found"))]
            /\ UNCHANGED <<heap, recordingBuffers>>
       ELSE /\ heap' = Append(heap, RecordingBuffer(active, h))
            /\ recordingBuffers' = [recordingBuffers EXCEPT ![active] = Len(heap) + 1]
            /\ hs' = [hs EXCEPT ![h].tabId = active, ![h].buf = Len(heap) + 1,
                                ![h].pc = "upRead"]
  /\ UNCHANGED <<storedBuffers, conversationStates, storedConvs, channel, recording,
                 tasks, notRecVars>>

\* part_003 308-311, 318-361; part_002 151-162, 101-103: the page's recorder
\* captures an event while recording and sends RecordStep; handleRecordStep
\* pushes the step on the tab's buffer in the map and starts its upsert, or,
\* without a buffer in the map, asks storage for one
PageEvent(type) ==
  /\ recording /\ channel
  /\ Len(hs) < MaxHandlers
  /\ LET h == Len(hs) + 1
         step == Step(<<"captured", h>>, type)
         b == recordingBuffers[1]
         hr == [Handler("record", step) EXCEPT !.tabId = 1]
     IN IF b # NoBuf
        THEN /\ heap' = [heap EXCEPT ![b].steps = Append(@, step)]
             /\ hs' = Append(hs, [hr EXCEPT !.buf = b, !.pc = "upRead"])
        ELSE /\ hs' = Append(hs, [hr EXCEPT !.pc = "ensure"])
             /\ UNCHANGED heap
  /\ UNCHANGED <<recordingBuffers, storedBuffers, conversationStates, storedConvs,
                 channel, recording, tasks, notRecVars>>

\* part_002 104-109, 158-160: getRecordingBuffer answers ensureRecordingBuffer:
\* the stored buffer is put in the map and the step pushed on it, or the
\* handler throws "Recording is not active"
EnsureRead(h) ==
  /\ h \in 1..Len(hs)
  /\ hs[h].kind = "record" /\ hs[h].pc = "ensure"
  /\ LET idx == findBuffer(storedBuffers, hs[h].tabId)
     IN IF idx = NoIdx
        THEN /\ hs' = [hs EXCEPT ![h] = Returned(@, Response("error", "Recording is not active"))]
             /\ UNCHANGED <<heap, recordingBuffers>>
        ELSE /\ heap' = Append(heap, [storedBuffers[idx] EXCEPT
                                        !.steps = Append(@, hs[h].step)])
             /\ recordingBuffers' = [recordingBuffers EXCEPT ![hs[h].tabId] = Len(heap) + 1]
             /\ hs' = [hs EXCEPT ![h].buf = Len(heap) + 1, ![h].pc = "upRead"]
  /\ UNCHANGED <<storedBuffers, conversationStates, storedConvs, channel, recording,
                 tasks, notRecVars>>

\* storage.ts 187: the stored buffers are read for an upsert
UpsertRead(h) ==
  /\ h \in 1..Len(hs)
  /\ hs[h].pc = "upRead"
  /\ hs' = [hs EXCEPT ![h].pc = "upWrite", ![h].snap = storedBuffers]
  /\ UNCHANGED <<heap, recordingBuffers, storedBuffers, conversationStates, storedConvs,
                 channel, recording, tasks, notRecVars>>

\* storage.ts 188-194, part_002 122-123: handleStartRecording's upsert writes;
\* the StartRecording message is passed on to the tab, unawaited, and the
\* handler answers
StartUpsertWrite(h) ==
  /\ h \in 1..Len(hs)
  /\ hs[h].kind = "start" /\ hs[h].pc = "upWrite"
  /\ storedBuffers' = upsertBufferInto(hs[h].snap, heap[hs[h].buf])
  /\ recording' = IF channel THEN TRUE ELSE recording
  /\ hs' = [hs EXCEPT ![h] = Returned(@, Response("state", "recording"))]
  /\ UNCHANGED <<heap, recordingBuffers, conversationStates, storedConvs, channel,
                 tasks, notRecVars>>

\* storage.ts 188-194, part_002 161: handleRecordStep's upsert writes; it answers ok
RecordUpsertWrite(h) ==
  /\ h \in 1..Len(hs)
  /\ hs[h].kind = "record" /\ hs[h].pc = "upWrite"
  /\ storedBuffers' = upsertBufferInto(hs[h].snap, heap[hs[h].buf])
  /\ hs' = [hs EXCEPT ![h] = Returned(@, Response("ok", ""))]
  /\ UNCHANGED <<heap, recordingBuffers, conversationStates, storedConvs, channel,
                 recording, tasks, notRecVars>>

\* part_002 127-129: the active tab is known; the StopRecording message is
\* passed on to the tab, unawaited, and the tab's stored buffer is asked for
StopGotTab(h) ==
  /\ h \in 1..Len(hs)
  /\ hs[h].kind = "stop" /\ hs[h].pc = "tab"
  /\ \E active \in Tabs \cup {NoTab} :
       IF active = NoTab
       THEN /\ hs' = [hs EXCEPT ![h] = Returned(@, Response("error", "No active tab found"))]
            /\ UNCHANGED recording
       ELSE /\ recording' = IF channel THEN FALSE ELSE recording
            /\ hs' = [hs EXCEPT ![h].tabId = active, ![h].pc = "getBuf"]
  /\ UNCHANGED <<heap, recordingBuffers, storedBuffers, conversationStates, storedConvs,
                 channel, tasks, notRecVars>>

\* part_002 129-145: the stored buffer answers; without steps the map entry is
\* deleted and the removal started, with steps a task is made and its save started
StopGetBuf(h) ==
  /\ h \in 1..Len(hs)
  /\ hs[h].kind = "stop" /\ hs[h].pc = "getBuf"
  /\ LET idx == findBuffer(storedBuffers, hs[h].tabId)
         steps == IF idx = NoIdx THEN <<>> ELSE storedBuffers[idx].steps
     IN IF steps = <<>>
        THEN /\ recordingBuffers' = [recordingBuffers EXCEPT ![hs[h].tabId] = NoBuf]
             /\ hs' = [hs EXCEPT ![h].pc = "rmRead", ![h].phase = "nosteps"]
        ELSE /\ hs' = [hs EXCEPT ![h].pc = "taskRead",
                                 ![h].task = Task(<<"task", h>>, steps)]
             /\ UNCHANGED recordingBuffers
  /\ UNCHANGED <<heap, storedBuffers, conversationStates, storedConvs, channel,
                 recording, tasks, notRecVars>>

\* storage.ts 70: the tasks are read for saveTask
TaskRead(h) ==
  /\ h \in 1..Len(hs)
  /\ hs[h].pc = "taskRead"
  /\ hs' = [hs EXCEPT ![h].pc = "taskWrite", ![h].snap = tasks]
  /\ UNCHANGED <<heap, recordingBuffers, storedBuffers, conversationStates, storedConvs,
                 channel, recording, tasks, notRecVars>>

\* storage.ts 71-77; part_002 146-147, 336-337: saveTask writes; the map entry
\* of the tab is deleted and the removal of the stored buffer started
TaskWrite(h) ==
  /\ h \in 1..Len(hs)
  /\ hs[h].pc = "taskWrite"
  /\ tasks' = upsertTaskInto(hs[h].snap, hs[h].task)
  /\ recordingBuffers' = [recordingBuffers EXCEPT ![hs[h].tabId] = NoBuf]
  /\ hs' = [hs EXCEPT ![h].pc = "rmRead", ![h].phase = "saved", ![h].snap = <<>>]
  /\ UNCHANGED <<heap, storedBuffers, conversationStates, storedConvs, channel,
                 recording, notRecVars>>

\* storage.ts 198: the stored buffers are read for removeRecordingBuffer
RmRead(h) ==
  /\ h \in 1..Len(hs)
  /\ hs[h].pc = "rmRead"
  /\ hs' = [hs EXCEPT ![h].pc = "rmWrite", ![h].snap = storedBuffers]
  /\ UNCHANGED <<heap, recordingBuffers, storedBuffers, conversationStates, storedConvs,
                 channel, recording, tasks, notRecVars>>

\* storage.ts 199-200; part_002 135, 148: handleStopRecording's removal writes;
\* the handler answers whether a task was saved
StopRmWrite(h) ==
  /\ h \in 1..Len(hs)
  /\ hs[h].kind = "stop" /\ hs[h].pc = "rmWrite"
  /\ storedBuffers' = removeBufferFrom(hs[h].snap, hs[h].tabId)
  /\ hs' = [hs EXCEPT ![h] = Returned(@, Response("ok",
               IF hs[h].phase = "saved" THEN "saved" ELSE "no steps"))]
  /\ UNCHANGED <<heap, recordingBuffers, conversationStates, storedConvs, channel,
                 recording, tasks, notRecVars>>

(***************************************************************************)
(* LLM-driven execution (background/index: handleRunLlmPrompt,             *)
(* handleRunLlmConversation)                                               *)
(***************************************************************************)
ConversationState(conversationId, history, tabId, isActive) ==
  [conversationId |-> conversationId, history |-> history, tabId |-> tabId,
   isActive |-> isActive]

\* the same without the lookup: the state is always pushed
upsertConvAppend(states, state) == Append(states, state)

\* storage.ts 169-178: saveConversationState, from the list read to the list written
upsertConvInto(states, state) ==
  LET index == FindIndex(states, LAMBDA c : c.conversationId = state.conversationId)
  IN IF index # NoIdx THEN [states EXCEPT ![index] = state] ELSE Append(states, state)

\* conversationStates.get(conversationId) is defined
HasConv(c) == conversationStates[c].conversationId # ""

\* what the LLM collaborator answers: it fails, or it answers with a step list
\* to execute, with a report, or with text only
StepLists ==
  { <<>>, <<Step("l1", "click")>>, <<Step("l1", "click"), Step("l2", "input")>> }
LlmAnswers ==
  {[kind |-> k, steps |-> <<>>] : k \in {"fail", "report", "plain"}}
  \cup {[kind |-> "execute", steps |-> l] : l \in StepLists}

\* part_002 310-318, 490-492: the catch block of the step loop takes every failure
loopCatchesOnlySuccess(outcome) == outcome = "ok"

loopCatches(outcome) == TRUE

\* part_002 311-314: the failed step as it is recorded, the error in its meta
WithError(step, outcome) == [id |-> step.id, type |-> step.type, error |-> ErrorOf(outcome)]

\* part_002 294-298, 321: the head of handleRunLlmPrompt's loop: step i is sent
\* to the tab, or after the last step the StopRecording message is
Send(hr, i) == [hr EXCEPT !.pc = "stepWait", !.i = i, !.sent = Append(@, hr.steps[i])]

PromptLoopHead(hr, i) ==
  IF i <= Len(hr.steps) THEN Send(hr, i) ELSE [hr EXCEPT !.pc = "stopSend", !.i = i]

\* part_002 428-443, 496-542: the head of handleRunLlmConversation's loop: the
\* conversation state is saved before step i is sent; after the last step the
\* page content is looked at and the StopRecording message sent
ConvLoopHead(hr, i, present) ==
  IF i > Len(hr.steps) THEN [hr EXCEPT !.pc = "stopSend", !.i = i]
  ELSE IF present THEN [hr EXCEPT !.pc = "cvRead", !.phase = "pre", !.i = i]
  ELSE Send(hr, i)

\* part_002 437-441, 452-457: the state in the map is marked active
Activated(states, c) ==
  IF states[c].conversationId # "" THEN [states EXCEPT ![c].isActive = TRUE] ELSE states

\* part_002 421-426, 547-552: the assistant's reply is pushed on the history
Replied(states, c) ==
  IF states[c].conversationId # ""
  THEN [states EXCEPT ![c].history = Append(@, "assistant")] ELSE states

\* part_002 616-619: dispatch hands a RunLlmPrompt or RunLlmConversation message
\* to its handler, which asks for the active tab; one LLM request per behaviour
LlmRequest(kind) ==
  /\ Len(hs) < MaxHandlers
  /\ \A h \in 1..Len(hs) : hs[h].kind \notin LlmKinds
  /\ hs' = Append(hs, Handler(kind, NoStep))
  /\ UNCHANGED <<heap, recordingBuffers, storedBuffers, conversationStates, storedConvs,
                 channel, recording, tasks, notRecVars>>

\* part_002 230-263, 350-392: the active tab and its url are known (or not: the
\* handler answers with the error); the page's DOM information is asked for,
\* with or without success; RunLlmPrompt asks the LLM, RunLlmConversation puts
\* the conversation's state in the map and starts saving it
LlmGotTab(h) ==
  /\ h \in 1..Len(hs)
  /\ hs[h].kind \in LlmKinds /\ hs[h].pc = "tab"
  /\ \E active \in Tabs \cup {NoTab} :
       IF active = NoTab
       THEN /\ hs' = [hs EXCEPT ![h] = Returned(@, Response("error", "No active tab found"))]
            /\ UNCHANGED conversationStates
       ELSE IF hs[h].kind = "prompt"
       THEN /\ hs' = [hs EXCEPT ![h].tabId = active, ![h].pc = "llm"]
            /\ UNCHANGED conversationStates
       ELSE \E c \in ConvIds :
            /\ conversationStates' = [conversationStates EXCEPT ![c] =
                  ConversationState(c, <<"user">>, active, TRUE)]
            /\ hs' = [hs EXCEPT ![h].tabId = active, ![h].convId = c,
                                ![h].pc = "cvRead", ![h].phase = "init"]
  /\ UNCHANGED <<heap, recordingBuffers, storedBuffers, storedConvs, channel,
                 recording, tasks, notRecVars>>

\* storage.ts 170: the stored conversation states are read for a save
CvRead(h) ==
  /\ h \in 1..Len(hs)
  /\ hs[h].pc = "cvRead"
  /\ hs' = [hs EXCEPT ![h].pc = "cvWrite", ![h].snap = storedConvs]
  /\ UNCHANGED <<heap, recordingBuffers, storedBuffers, conversationStates, storedConvs,
                 channel, recording, tasks, notRecVars>>

\* storage.ts 171-177: the save writes; what follows it in
\* handleRunLlmConversation: the LLM is asked (392-394), the loop starts (428),
\* the step is sent (445), the navigation is waited for and the loop goes on
\* (459-487), or the handler answers (554-561)
CvWrite(h) ==
  /\ h \in 1..Len(hs)
  /\ hs[h].pc = "cvWrite"
  /\ storedConvs' = upsertConvInto(hs[h].snap, conversationStates[hs[h].convId])
  /\ LET hr == [hs[h] EXCEPT !.snap = <<>>]
         present == HasConv(hr.convId)
         next == IF hr.phase = "exec" THEN 1 ELSE hr.i + 1
     IN CASE hr.phase = "init" ->
               /\ hs' = [hs EXCEPT ![h] = [hr EXCEPT !.pc = "llm"]]
               /\ UNCHANGED conversationStates
          [] hr.phase = "pre" ->
               /\ hs' = [hs EXCEPT ![h] = Send(hr, hr.i)]
               /\ UNCHANGED conversationStates
          [] hr.phase \in {"exec", "post"} ->
               /\ hs' = [hs EXCEPT ![h] = ConvLoopHead(hr, next, present)]
               /\ conversationStates' =
                    IF next <= Len(hr.steps)
                    THEN Activated(conversationStates, hr.convId) ELSE conversationStates
          [] OTHER ->
               /\ hs' = [hs EXCEPT ![h] = Returned(hr, Response("llmConversation", ""))]
               /\ UNCHANGED conversationStates
  /\ UNCHANGED <<heap, recordingBuffers, storedBuffers, channel, recording, tasks,
                 notRecVars>>

\* part_002 263-292, 394-417, 543-553: the LLM answers.  A failure or, for
\* RunLlmPrompt, an answer without a step list ends the handler with an error;
\* a step list opens a buffer without steps, puts it in the map and starts its
\* upsert; a conversational answer without steps goes to the final save
LlmAnswer(h, answer) ==
  /\ h \in 1..Len(hs)
  /\ hs[h].kind \in LlmKinds /\ hs[h].pc = "llm"
  /\ IF answer.kind = "execute"
     THEN /\ heap' = Append(heap, RecordingBuffer(hs[h].tabId, h))
          /\ recordingBuffers' = [recordingBuffers EXCEPT ![hs[h].tabId] = Len(heap) + 1]
          /\ hs' = [hs EXCEPT ![h].steps = answer.steps, ![h].buf = Len(heap) + 1,
                              ![h].pc = "upRead", ![h].phase = "begin"]
          /\ UNCHANGED conversationStates
     ELSE IF answer.kind = "fail" \/ hs[h].kind = "prompt"
     THEN /\ hs' = [hs EXCEPT ![h] = Returned(@, Response("error", "LLM"))]
          /\ UNCHANGED <<heap, recordingBuffers, conversationStates>>
     ELSE /\ conversationStates' = Replied(conversationStates, hs[h].convId)
          /\ hs' = [hs EXCEPT ![h] =
                      IF HasConv(hs[h].convId)
                      THEN [@ EXCEPT !.pc = "cvRead", !.phase = "final"]
                      ELSE Returned(@, Response("llmConversation", ""))]
          /\ UNCHANGED <<heap, recordingBuffers>>
  /\ UNCHANGED <<storedBuffers, storedConvs, channel, recording, tasks, notRecVars>>

\* storage.ts 188-194: an upsert of an LLM handler writes; then the
\* StartRecording message is sent and awaited (part_002 292, 417), or the loop
\* goes on after a recorded step (part_002 304-309, 448-457)
LlmUpsertWrite(h) ==
  /\ h \in 1..Len(hs)
  /\ hs[h].kind \in LlmKinds /\ hs[h].pc = "upWrite"
  /\ storedBuffers' = upsertBufferInto(hs[h].snap, heap[hs[h].buf])
  /\ LET hr == [hs[h] EXCEPT !.snap = <<>>]
     IN IF hr.phase = "begin"
        THEN /\ hs' = [hs EXCEPT ![h] = [hr EXCEPT !.pc = "startSend"]]
             /\ UNCHANGED conversationStates
        ELSE IF hr.kind = "prompt"
        THEN /\ hs' = [hs EXCEPT ![h] = PromptLoopHead(hr, hr.i + 1)]
             /\ UNCHANGED conversationStates
        ELSE /\ conversationStates' = Activated(conversationStates, hr.convId)
             /\ hs' = [hs EXCEPT ![h] =
                         IF HasConv(hr.convId)
                         THEN [hr EXCEPT !.pc = "cvRead", !.phase = "post"]
                         ELSE ConvLoopHead(hr, hr.i + 1, FALSE)]
  /\ UNCHANGED <<heap, recordingBuffers, storedConvs, channel, recording, tasks,
                 notRecVars>>

\* part_002 292-298, 417-428: the sending of StartRecording is over: rejected,
\* the handler answers with the error; delivered, the recorder records and
\* RunLlmPrompt enters its loop, RunLlmConversation first saves the reply
StartSendDone(h) ==
  /\ h \in 1..Len(hs)
  /\ hs[h].kind \in LlmKinds /\ hs[h].pc = "startSend"
  /\ IF ~channel
     THEN /\ hs' = [hs EXCEPT ![h] =
                      Returned(@, Response("error", "Could not establish connection"))]
          /\ UNCHANGED <<recording, conversationStates>>
     ELSE /\ recording' = TRUE
          /\ IF hs[h].kind = "prompt"
             THEN /\ hs' = [hs EXCEPT ![h] = PromptLoopHead(@, 1)]
                  /\ UNCHANGED conversationStates
             ELSE /\ conversationStates' =
                       Activated(Replied(conversationStates, hs[h].convId), hs[h].convId)
                  /\ hs' = [hs EXCEPT ![h] =
                              IF HasConv(hs[h].convId)
                              THEN [@ EXCEPT !.pc = "cvRead", !.phase = "exec"]
                              ELSE ConvLoopHead(@, 1, FALSE)]
  /\ UNCHANGED <<heap, recordingBuffers, storedBuffers, storedConvs, channel, tasks,
                 notRecVars>>

\* part_002 213-226, 297-318, 445-492: the tab answers the step, or the channel
\* fails.  RunLlmPrompt records the step, a failed one with the error in its
\* meta, and starts the buffer's upsert; RunLlmConversation records a step that
\* succeeded and goes on to the next step after one that failed
LlmStepResult(h, outcome) ==
  /\ h \in 1..Len(hs)
  /\ hs[h].kind \in LlmKinds /\ hs[h].pc = "stepWait"
  /\ (outcome = "chan") <=> ~channel
  /\ LET hr == [hs[h] EXCEPT !.outcomes = Append(@, outcome)]
         step == hr.steps[hr.i]
     IN IF outcome # "ok" /\ ~loopCatches(outcome)
        THEN /\ hs' = [hs EXCEPT ![h] = Returned(hr, Response("error", ErrorOf(outcome)))]
             /\ UNCHANGED <<heap, recordingBuffers, conversationStates>>
        ELSE IF hr.kind = "prompt" \/ outcome = "ok"
        THEN /\ heap' = [heap EXCEPT ![hr.buf].steps =
                           Append(@, IF outcome = "ok" THEN step
                                     ELSE WithError(step, outcome))]
             /\ recordingBuffers' = [recordingBuffers EXCEPT ![hr.tabId] = hr.buf]
             /\ hs' = [hs EXCEPT ![h] =
                         [hr EXCEPT !.pc = "upRead", !.phase = "step",
                                    !.executed = IF outcome = "ok"
                                                 THEN Append(@, step) ELSE @]]
             /\ UNCHANGED conversationStates
        ELSE /\ hs' = [hs EXCEPT ![h] = ConvLoopHead(hr, hr.i + 1, HasConv(hr.convId))]
             /\ conversationStates' =
                  IF hr.i + 1 <= Len(hr.steps)
                  THEN Activated(conversationStates, hr.convId) ELSE conversationStates
             /\ UNCHANGED <<heap, recordingBuffers>>
  /\ UNCHANGED <<storedBuffers, storedConvs, channel, recording, tasks, notRecVars>>

\* part_002 321-336, 542-544: the sending of StopRecording is over: rejected,
\* the handler answers with the error; delivered, the recorder stops.
\* RunLlmPrompt saves the buffer's steps as a task, or without steps removes
\* the buffer; RunLlmConversation removes the buffer
StopSendDone(h) ==
  /\ h \in 1..Len(hs)
  /\ hs[h].kind \in LlmKinds /\ hs[h].pc = "stopSend"
  /\ IF ~channel
     THEN /\ hs' = [hs EXCEPT ![h] =
                      Returned([@ EXCEPT !.stopRejected = TRUE],
                               Response("error", "Could not establish connection"))]
          /\ UNCHANGED <<recording, recordingBuffers>>
     ELSE /\ recording' = FALSE
          /\ IF hs[h].kind = "prompt" /\ StepsOf(hs[h].buf) # <<>>
             THEN /\ hs' = [hs EXCEPT ![h].pc = "taskRead",
                                      ![h].task = Task(<<"task", h>>, StepsOf(hs[h].buf))]
                  /\ UNCHANGED recordingBuffers
             ELSE /\ recordingBuffers' = [recordingBuffers EXCEPT ![hs[h].tabId] = NoBuf]
                  /\ hs' = [hs EXCEPT ![h].pc = "rmRead",
                                      ![h].phase = IF hs[h].kind = "prompt"
                                                   THEN "nosteps" ELSE "conv"]
  /\ UNCHANGED <<heap, storedBuffers, conversationStates, storedConvs, channel, tasks,
                 notRecVars>>

\* storage.ts 199-200; part_002 325, 338-340, 544-561: the removal of an LLM
\* handler writes; RunLlmPrompt answers with the task, or with an error when no
\* step was executed; RunLlmConversation pushes the reply and saves the state
LlmRmWrite(h) ==
  /\ h \in 1..Len(hs)
  /\ hs[h].kind \in LlmKinds /\ hs[h].pc = "rmWrite"
  /\ storedBuffers' = removeBufferFrom(hs[h].snap, hs[h].tabId)
  /\ LET hr == [hs[h] EXCEPT !.snap = <<>>]
     IN IF hr.kind = "prompt"
        THEN /\ hs' = [hs EXCEPT ![h] =
                         Returned(hr, IF hr.phase = "saved"
                                      THEN Response("llmTask", hr.task.id)
                                      ELSE Response("error", "No steps were executed"))]
             /\ UNCHANGED conversationStates
        ELSE /\ conversationStates' = Replied(conversationStates, hr.convId)
             /\ hs' = [hs EXCEPT ![h] =
                         IF HasConv(hr.convId)
                         THEN [hr EXCEPT !.pc = "cvRead", !.phase = "final"]
                         ELSE Returned(hr, Response("llmConversation", ""))]
  /\ UNCHANGED <<heap, recordingBuffers, storedConvs, channel, recording, tasks,
                 notRecVars>>

\* the tab navigates or closes (the content script is gone, and its recorder's
\* flag with it), or a page with its content script is back
ChannelChange ==
  /\ channel' = ~channel
  /\ recording' = IF channel THEN FALSE ELSE recording
  /\ UNCHANGED <<heap, recordingBuffers, storedBuffers, conversationStates, storedConvs,
                 hs, tasks, notRecVars>>

\* the buffer of a recording during which one click has been captured
CapturedOne ==
  [RecordingBuffer(1, 0) EXCEPT !.steps = <<Step(<<"captured", 0>>, "click")>>]

\* nothing is recorded, or a recording is going on in the tab: StartRecording
\* and one RecordStep have been handled; after that the service worker may
\* have been restarted with its hydration (part_002 78-82) failing, which
\* leaves the map empty
InitRec ==
  /\ tasks = <<>>
  /\ flows = <<>>
  /\ triggers = <<>>
  /\ logs = <<>>
  /\ runs = <<>>
  /\ signal = NoSignal
  /\ overlap = FALSE
  /\ PageIdle
  /\ DelIdle
  /\ ExtIdle
  /\ conversationStates = [c \in ConvIds |-> NoConv]
  /\ storedConvs = <<>>
  /\ hs = <<>>
  /\ channel = TRUE
  /\ \/ /\ heap = <<>>
        /\ recordingBuffers = [t \in Tabs |-> NoBuf]
        /\ storedBuffers = <<>>
        /\ recording = FALSE
     \/ /\ heap = <<CapturedOne>>
        /\ recordingBuffers = [t \in Tabs |-> 1]
        /\ storedBuffers = <<CapturedOne>>
        /\ recording = TRUE
     \/ /\ heap = <<>>
        /\ recordingBuffers = [t \in Tabs |-> NoBuf]
        /\ storedBuffers = <<CapturedOne>>
        /\ recording = TRUE

RecNext ==
  \/ \E kind \in {"start", "stop"} : RecRequest(kind)
  \/ \E kind \in LlmKinds : LlmRequest(kind)
  \/ \E type \in {"click"} : PageEvent(type)
  \/ \E h \in 1..MaxHandlers : StartGotTab(h)
  \/ \E h \in 1..MaxHandlers : EnsureRead(h)
  \/ \E h \in 1..MaxHandlers : UpsertRead(h)
  \/ \E h \in 1..MaxHandlers : StartUpsertWrite(h)
  \/ \E h \in 1..MaxHandlers : RecordUpsertWrite(h)
  \/ \E h \in 1..MaxHandlers : StopGotTab(h)
  \/ \E h \in 1..MaxHandlers : StopGetBuf(h)
  \/ \E h \in 1..MaxHandlers : TaskRead(h)
  \/ \E h \in 1..MaxHandlers : TaskWrite(h)
  \/ \E h \in 1..MaxHandlers : RmRead(h)
  \/ \E h \in 1..MaxHandlers : StopRmWrite(h)
  \/ \E h \in 1..MaxHandlers : LlmGotTab(h)
  \/ \E h \in 1..MaxHandlers : CvRead(h)
  \/ \E h \in 1..MaxHandlers : CvWrite(h)
  \/ \E h \in 1..MaxHandlers, answer \in LlmAnswers : LlmAnswer(h, answer)
  \/ \E h \in 1..MaxHandlers : LlmUpsertWrite(h)
  \/ \E h \in 1..MaxHandlers : StartSendDone(h)
  \/ \E h \in 1..MaxHandlers, outcome \in Outcomes : LlmStepResult(h, outcome)
  \/ \E h \in 1..MaxHandlers : StopSendDone(h)
  \/ \E h \in 1..MaxHandlers : LlmRmWrite(h)
  \/ ChannelChange

SpecRec == InitRec /\ [][RecNext]_vars

(***************************************************************************)
(* Properties of the recording buffers and of the LLM-driven loops         *)
(***************************************************************************)
\* handler h takes the step in which it opens its buffer, for tab t
StartsOn(h, t) ==
  /\ hs[h].kind \in StartKinds
  /\ hs[h].buf = NoBuf
  /\ hs'[h].buf # NoBuf
  /\ hs'[h].tabId = t

\* C4: starting a recording on a tab whose active buffer holds captured steps
\* (through StartRecording, RunLlmPrompt or a conversational execute action)
\* reuses that buffer or is rejected: the steps captured for the tab are never
\* discarded by the new start.
C4_StartKeepsCapturedSteps ==
  [][\A t \in Tabs, h \in 1..MaxHandlers :
       (h <= Len(hs) /\ StartsOn(h, t) /\ StepsOf(recordingBuffers[t]) # <<>>) =>
         /\ recordingBuffers'[t] # NoBuf
         /\ IsPrefix(StepsOf(recordingBuffers[t]), heap'[recordingBuffers'[t]].steps)]_vars

SomeStepFailed(hr) == \E k \in 1..Len(hr.outcomes) : hr.outcomes[k] # "ok"

NormalResult(hr) ==
  hr.result.type = (IF hr.kind = "prompt" THEN "llmTask" ELSE "llmConversation")

LlmHandlers == {h \in 1..Len(hs) : hs[h].kind \in LlmKinds}

SavedTaskOf(h, steps) ==
  \E k \in 1..Len(tasks) : tasks[k].id = <<"task", h>> /\ tasks[k].steps = steps

\* C11: when the execute action of a conversational turn has run its step list,
\* the steps accumulated in the tab's RecordingBuffer are saved as one new Task
\* before the buffer is removed.
C11_ConversationSavesBufferAsTask ==
  \A h \in LlmHandlers :
    (hs[h].kind = "conv" /\ hs[h].pc \in {"rmRead", "rmWrite"}
       /\ StepsOf(hs[h].buf) # <<>>) =>
      SavedTaskOf(h, StepsOf(hs[h].buf))

\* what the loop of handler hr has to leave in its buffer: one entry per
\* attempted step, a failed one with the error in its metadata
AttemptedEntries(hr) ==
  [k \in 1..Len(hr.outcomes) |->
     IF hr.outcomes[k] = "ok" THEN hr.steps[k] ELSE WithError(hr.steps[k], hr.outcomes[k])]

NoRecordStepHandled == \A g \in 1..Len(hs) : hs[g].kind # "record"

\* C12: in the LLM-driven execute loop every failed step is appended to the
\* RecordingBuffer with the error message in its metadata, so that after the
\* loop the buffer holds one entry per attempted step, in list order (stated
\* for the runs in which the recorder sent no RecordStep of its own).
C12_EveryAttemptedStepRecorded ==
  \A h \in LlmHandlers :
    (hs[h].buf # NoBuf /\ hs[h].steps # <<>> /\ NoRecordStepHandled
       /\ Len(hs[h].outcomes) = Len(hs[h].steps)) =>
      StepsOf(hs[h].buf) = AttemptedEntries(hs[h])

\* the steps the buffer of tab t holds: those of the buffer in the map, or,
\* when the map has none (after a restart), those of the stored buffer
HeldSteps(t) ==
  IF recordingBuffers[t] # NoBuf THEN StepsOf(recordingBuffers[t])
  ELSE IF findBuffer(storedBuffers, t) # NoIdx
       THEN storedBuffers[findBuffer(storedBuffers, t)].steps
       ELSE <<>>

StopHandlers == {h \in 1..Len(hs) : hs[h].kind = "stop"}

\* handler h takes the step in which it leaves position pc
Leaves(h, pc) == h \in StopHandlers /\ hs[h].pc = pc /\ hs'[h].pc # pc

\* C18: StopRecording on a tab whose buffer holds n >= 1 steps saves exactly one
\* new Task whose steps are the buffer's steps in capture order and then
\* removes that tab's buffer from both the in-memory map and storage; on a tab
\* with an empty or absent buffer it saves no Task, removes the buffer, and
\* reports saved=false.
C18_StopFlushesBufferIntoTask ==
  [][\A h \in 1..MaxHandlers :
       /\ Leaves(h, "getBuf") =>
            IF HeldSteps(hs[h].tabId) # <<>>
            THEN hs'[h].pc = "taskRead" /\ hs'[h].task.steps = HeldSteps(hs[h].tabId)
            ELSE hs'[h].pc = "rmRead" /\ recordingBuffers'[hs[h].tabId] = NoBuf
       /\ Leaves(h, "taskWrite") =>
            /\ Len(SelectSeq(tasks', LAMBDA t : t.id = hs[h].task.id)) = 1
            /\ hs[h].task \in Range(tasks')
            /\ recordingBuffers'[hs[h].tabId] = NoBuf
       /\ Leaves(h, "rmWrite") =>
            /\ findBuffer(storedBuffers', hs[h].tabId) = NoIdx
            /\ hs'[h].result = Response("ok", IF SavedTaskOf(h, hs[h].task.steps)
                                              THEN "saved" ELSE "no steps")]_vars

(***************************************************************************)
(* Import (background/storage: mergeById, importData; background/index:    *)
(* handleImportData)                                                       *)
(***************************************************************************)
MaxImports == 1      \* ImportData requests handled in one behaviour

\* the persisted list under a key
Stored(k) == CASE k = "tasks" -> tasks [] k = "flows" -> flows [] OTHER -> triggers

idSet(items) == {items[i].id : i \in 1..Len(items)}

\* storage.ts 204-207: Map.set keeps the place of a key it has, and puts a new
\* key last
mapSet(entries, item) ==
  LET idx == FindIndex(entries, LAMBDA e : e.id = item.id)
  IN IF idx # NoIdx THEN [entries EXCEPT ![idx] = item] ELSE Append(entries, item)

RECURSIVE mapOf(_, _)
mapOf(entries, items) ==
  IF items = <<>> THEN entries ELSE mapOf(mapSet(entries, Head(items)), Tail(items))

\* the same with a stored item kept on an id conflict
mergeByIdBaseWins(base, incoming) ==
  mapOf(<<>>, base) \o SelectSeq(incoming, LAMBDA x : x.id \notin idSet(base))

\* storage.ts 203-209: mergeById
mergeById(base, incoming) == mapOf(mapOf(<<>>, base), incoming)

\* a list of an import payload: absent, or the items given
Absent == [present |-> FALSE, items |-> <<>>]
Given(items) == [present |-> TRUE, items |-> items]

\* storage.ts 219-221, 227-229: payload.tasks ?? []
orEmpty(field) == IF field.present THEN field.items ELSE <<>>

ImportTasks ==
  { Absent, Given(<<>>), Given(<<Task("t1", <<Step("s9", "wait")>>)>>),
    Given(<<Task("t3", <<>>), Task("t1", <<>>)>>),
    Given(<<Task("t3", <<>>), Task("t3", <<Step("s9", "wait")>>)>>) }
ImportFlows ==
  { Absent, Given(<<Flow("f1", <<"t3">>, <<>>, FALSE)>>),
    Given(<<Flow("f3", <<"t1">>, <<>>, TRUE)>>) }
ImportTriggers ==
  { Absent, Given(<<Trigger("tr1", "shortcut", "f3", "", "run-1", TRUE)>>) }
ImportPayloads ==
  { [tasks |-> t, flows |-> f, triggers |-> g] :
      t \in ImportTasks, f \in ImportFlows, g \in ImportTriggers }

\* part_002 606-607, 203-204; storage.ts 216-225: dispatch hands an ImportData
\* message to handleImportData, which calls importData: in replace mode the
\* three writes are issued, in merge mode the three reads
ImportRequest(mode, payload) ==
  /\ imp.pc \in {"idle", "done"}
  /\ imp.n < MaxImports
  /\ imp' = [imp EXCEPT !.pc = IF mode = "replace" THEN "writing" ELSE "reading",
                        !.n = @ + 1, !.mode = mode, !.payload = payload,
                        !.got = [k \in StorageKeys |-> <<>>],
                        !.vals = [k \in StorageKeys |-> orEmpty(payload[k])],
                        !.pending = StorageKeys, !.result = "",
                        !.before = [k \in StorageKeys |-> Stored(k)]]
  /\ UNCHANGED <<tasks, flows, triggers, notImpVars>>

\* storage.ts 38-50, 225-230; part_002 621-631: one of the three reads answers.
\* A read that fails rejects importData, and the listener answers with the
\* error; after the last of three reads that succeeded the three writes of the
\* merged lists are issued
ImportRead(k, ok) ==
  /\ imp.pc = "reading" /\ k \in imp.pending
  /\ LET got == [imp.got EXCEPT ![k] = IF ok THEN Stored(k) ELSE @]
         result == IF ok THEN imp.result ELSE "error"
         left == imp.pending \ {k}
     IN imp' = IF left # {}
               THEN [imp EXCEPT !.got = got, !.result = result, !.pending = left]
               ELSE IF result = "error"
               THEN [imp EXCEPT !.got = got, !.result = result, !.pending = left,
                                !.pc = "done"]
               ELSE [imp EXCEPT !.got = got, !.pending = StorageKeys, !.pc = "writing",
                                !.vals = [j \in StorageKeys |->
                                            mergeById(got[j], orEmpty(imp.payload[j]))]]
  /\ UNCHANGED <<tasks, flows, triggers, notImpVars>>

\* storage.ts 52-63, 217-230; part_002 205, 621-631: one of the three writes
\* answers: the list is stored, or the write fails, which rejects importData,
\* and the listener answers with the error; the other writes go on.  After
\* three writes that succeeded handleImportData answers ok
ImportWrite(k, ok) ==
  /\ imp.pc = "writing" /\ k \in imp.pending
  /\ tasks' = IF ok /\ k = "tasks" THEN imp.vals[k] ELSE tasks
  /\ flows' = IF ok /\ k = "flows" THEN imp.vals[k] ELSE flows
  /\ triggers' = IF ok /\ k = "triggers" THEN imp.vals[k] ELSE triggers
  /\ LET result == IF ok THEN imp.result ELSE "error"
         left == imp.pending \ {k}
     IN imp' = [imp EXCEPT !.pending = left,
                           !.result = IF left = {} /\ result = "" THEN "ok" ELSE result,
                           !.pc = IF left = {} THEN "done" ELSE @]
  /\ UNCHANGED notImpVars

\* the lists stored before the request: nothing, or tasks, a flow and a trigger
InitImport ==
  /\ tasks \in {<<>>, <<Task("t1", <<Step("s1", "click")>>), Task("t2", <<>>)>>}
  /\ flows \in {<<>>, <<Flow("f1", <<"t1", "t2">>, <<>>, TRUE)>>}
  /\ triggers \in {<<>>, <<Trigger("tr1", "url", "f1", "example", "", TRUE)>>}
  /\ logs = <<>>
  /\ runs = <<>>
  /\ signal = NoSignal
  /\ overlap = FALSE
  /\ PageIdle
  /\ DelIdle
  /\ RecIdle
  /\ ExtIdle

ImportNext ==
  \/ \E mode \in {"merge", "replace"}, payload \in ImportPayloads :
       ImportRequest(mode, payload)
  \/ \E k \in StorageKeys, ok \in BOOLEAN : ImportRead(k, ok)
  \/ \E k \in StorageKeys, ok \in BOOLEAN : ImportWrite(k, ok)

SpecImport == InitImport /\ [][ImportNext]_vars

(***************************************************************************)
(* Properties of the import                                                *)
(***************************************************************************)
\* out is the id-keyed union of base and incoming, incoming winning a conflict
IdKeyedUnion(base, incoming, out) ==
  /\ idSet(out) = idSet(base) \cup idSet(incoming)
  /\ Cardinality(idSet(out)) = Len(out)
  /\ \A i \in 1..Len(out) :
       IF out[i].id \in idSet(incoming)
       THEN out[i] \in Range(incoming) ELSE out[i] \in Range(base)

ImportSucceeded == imp.pc = "done" /\ imp.result = "ok"

\* C13: importData in merge mode leaves each of tasks, flows and triggers equal
\* to the id-keyed union of the stored list and the incoming list, the incoming
\* item replacing the stored one on an id conflict; in replace mode it leaves
\* each of the three lists equal to the incoming list alone, empty when the
\* payload omits it.
C13_ImportMergesOrReplaces ==
  ImportSucceeded =>
    \A k \in StorageKeys :
      IF imp.mode = "replace"
      THEN Stored(k) = (IF imp.payload[k].present THEN imp.payload[k].items ELSE <<>>)
      ELSE IdKeyedUnion(imp.before[k], imp.payload[k].items, Stored(k))

\* a merge over stored tasks t1, t2 with incoming t3, t1 has replaced t1 and
\* kept t2
C13_Witness ==
  /\ ImportSucceeded
  /\ imp.mode = "merge"
  /\ imp.before["tasks"] # <<>>
  /\ imp.payload["tasks"] = Given(<<Task("t3", <<>>), Task("t1", <<>>)>>)
  /\ tasks = <<Task("t1", <<>>), Task("t2", <<>>), Task("t3", <<>>)>>

\* C17: if any storage read or write a mutating request issues fails, the
\* request reports an error and every persisted list is left exactly as it was
\* before the request began (stated for importData).
C17_FailedImportChangesNothing ==
  imp.result = "error" => \A k \in StorageKeys : Stored(k) = imp.before[k]

(***************************************************************************)
(* Recorder (content/recorder)                                             *)
(***************************************************************************)
MaxCapSteps == 5     \* messages to the recorder and page events in one behaviour

EventTypes == {"click", "input", "change", "submit"}

\* part_003 348-353: the handler addListeners attaches for an event type, named
\* by the type of the step it makes
HandlerOf(type) ==
  CASE type = "click" -> "click" [] type = "submit" -> "submit" [] OTHER -> "input"

\* part_003 362-366: startRecording
startRecording(c) ==
  IF c.recording THEN c ELSE [c EXCEPT !.recording = TRUE, !.listeners = EventTypes]

\* a stopRecording that leaves the recorder as it is
stopRecordingKeeps(c) == c

\* part_003 368-372: stopRecording
stopRecording(c) ==
  IF ~c.recording THEN c ELSE [c EXCEPT !.recording = FALSE, !.listeners = {}]

\* part_003 313-346: handleClick, handleInput, handleSubmit: the step sent for
\* an event, if one is
stepsFor(c, type, hasTarget) ==
  IF ~c.recording \/ ~hasTarget THEN <<>>
  ELSE << [type |-> HandlerOf(type), event |-> Len(c.events) + 1] >>

\* part_003 374-380: a StartRecording or StopRecording message reaches the
\* content script (cap.last: the last of them, cap.msgs: how many so far)
CapMessage(type) ==
  /\ Len(cap.events) + cap.msgs < MaxCapSteps
  /\ cap' = [(IF type = "start" THEN startRecording(cap) ELSE stopRecording(cap))
               EXCEPT !.last = type, !.msgs = @ + 1]
  /\ UNCHANGED notCapVars

\* part_003 313-353: the page dispatches an event: the listener attached for
\* its type, if any, runs (cap.events: the events so far, each with the last
\* message before it)
CapEvent(type, hasTarget) ==
  /\ Len(cap.events) + cap.msgs < MaxCapSteps
  /\ cap' = [cap EXCEPT
               !.events = Append(@, [type |-> type, after |-> cap.last,
                                     target |-> hasTarget]),
               !.sent = IF type \in cap.listeners
                        THEN @ \o stepsFor(cap, type, hasTarget) ELSE @]
  /\ UNCHANGED notCapVars

InitCapture ==
  /\ RunIdle
  /\ PageIdle
  /\ DelIdle
  /\ RecIdle
  /\ ExtIdle

CaptureNext ==
  \/ \E type \in {"start", "stop"} : CapMessage(type)
  \/ \E type \in EventTypes, hasTarget \in BOOLEAN : CapEvent(type, hasTarget)

SpecCapture == InitCapture /\ [][CaptureNext]_vars

(***************************************************************************)
(* Properties of the recorder                                              *)
(***************************************************************************)
\* the capturer was Idle when event e occurred: no StartRecording came before
\* it, or a StopRecording came after the last one
OccurredWhileIdle(e) == e.after # "start"

\* C14: the Event Capturer emits a step only while in state Recording: for any
\* sequence of StartRecording and StopRecording messages interleaved with page
\* events, an event that occurs while the capturer is Idle produces no
\* RecordStep message, neither at once nor after a later StartRecording.
C14_NoStepWhileIdle ==
  /\ \A i \in 1..Len(cap.sent) :
       /\ cap.sent[i].event \in 1..Len(cap.events)
       /\ ~OccurredWhileIdle(cap.events[cap.sent[i].event])
  /\ \A i, j \in 1..Len(cap.sent) : cap.sent[i].event = cap.sent[j].event => i = j
  /\ cap.recording <=> cap.last = "start"

\* an event dropped while Idle after a StopRecording, a StartRecording after
\* it, and then an event that was captured: one step was sent, for the later
\* event
C14_Witness ==
  /\ Len(cap.events) = 2
  /\ cap.events[1].after = "stop" /\ cap.events[1].target
  /\ cap.events[2].after = "start"
  /\ cap.sent = << [type |-> "input", event |-> 2] >>

(***************************************************************************)
(* Dispatcher (background/index: dispatch, runtime.onMessage listener)     *)
(***************************************************************************)
MaxRequests == 2     \* request messages received in one behaviour

\* part_002 574-619: the message types dispatch has a case for
ReadTypes ==
  {"GET_TASKS", "GET_FLOWS", "GET_LOGS", "GET_STATE", "GET_TRIGGERS", "EXPORT_DATA",
   "GET_LLM_SETTINGS"}
WriteTypes ==
  {"SAVE_TASK", "DELETE_TASK", "SAVE_FLOW", "DELETE_FLOW", "SAVE_TRIGGER",
   "DELETE_TRIGGER", "IMPORT_DATA", "SAVE_LLM_SETTINGS"}
RecordingTypes == {"START_RECORDING", "STOP_RECORDING", "RECORD_STEP"}
LlmTypes == {"RUN_LLM_PROMPT", "RUN_LLM_CONVERSATION"}
DispatchedTypes ==
  ReadTypes \cup WriteTypes \cup RecordingTypes \cup LlmTypes \cup {"RUN_FLOW"}

\* messageTypes.ts 3-33: message types dispatch has no case for, and a type
\* that is none of the enumeration
OtherTypes == {"GET_CONVERSATION_STATES", "DELETE_CONVERSATION_STATE", "?"}

RequestTypes == DispatchedTypes \cup OtherTypes

\* a response the listener sends; how dispatch(message) can settle
BackgroundResponse(type, message) == [type |-> type, message |-> message]
Returning(response) == [kind |-> "returns", response |-> response, message |-> ""]
Throwing(message) ==
  [kind |-> "throws", response |-> BackgroundResponse("", ""), message |-> message]

\* part_002 572-619: dispatch: the ways the handler of a message type settles.
\* A handler returns its response, or throws what a collaborator rejected with
\* (an Error or chrome.runtime.lastError, both with a message); the handlers of
\* the LLM requests catch everything themselves and return the error
dispatch(type) ==
  CASE type \in ReadTypes ->
         {Returning(BackgroundResponse("data", "")), Throwing("storage")}
    [] type \in WriteTypes ->
         {Returning(BackgroundResponse("ok", "")), Throwing("storage")}
    [] type = "RUN_FLOW" ->
         {Returning(BackgroundResponse("ok", "")), Throwing("storage"),
          Throwing("Flow not found")}
    [] type = "START_RECORDING" ->
         {Returning(BackgroundResponse("state", "")), Throwing("No active tab found"),
          Throwing("storage")}
    [] type = "STOP_RECORDING" ->
         {Returning(BackgroundResponse("ok", "")), Throwing("No active tab found"),
          Throwing("storage")}
    [] type = "RECORD_STEP" ->
         {Returning(BackgroundResponse("ok", "")),
          Returning(BackgroundResponse("error", "Tab not found for recording")),
          Throwing("Recording is not active"), Throwing("storage")}
    [] type = "RUN_LLM_PROMPT" ->
         {Returning(BackgroundResponse("llmTask", "")),
          Returning(BackgroundResponse("error", "No steps were executed")),
          Returning(BackgroundResponse("error", "caught"))}
    [] type = "RUN_LLM_CONVERSATION" ->
         {Returning(BackgroundResponse("llmConversation", "")),
          Returning(BackgroundResponse("error", "caught"))}
    [] OTHER ->
         {Returning(BackgroundResponse("error", "Unknown message type"))}

\* a catch block that lets the error go
listenerCatchSilent(settled) == <<>>

\* part_002 626-628: the listener's catch block
listenerCatch(settled) == << BackgroundResponse("error", settled.message) >>

\* part_002 621-623: a request message arrives and the listener calls dispatch
RequestArrives(type) ==
  /\ Len(req) < MaxRequests
  /\ req' = Append(req, [type |-> type, pc |-> "dispatched",
                         settled |-> Returning(BackgroundResponse("", "")),
                         responses |-> <<>>])
  /\ UNCHANGED notReqVars

\* part_002 623-629: dispatch settles, and the listener sends the response it
\* returned or the error it threw
RequestSettles(i, settled) ==
  /\ i \in 1..Len(req)
  /\ req[i].pc = "dispatched"
  /\ settled \in dispatch(req[i].type)
  /\ req' = [req EXCEPT ![i].pc = "settled", ![i].settled = settled,
                        ![i].responses = @ \o (IF settled.kind = "returns"
                                               THEN <<settled.response>>
                                               ELSE listenerCatch(settled))]
  /\ UNCHANGED notReqVars

AllSettled ==
  UNION {dispatch(type) : type \in RequestTypes}

InitDispatch ==
  /\ RunIdle
  /\ PageIdle
  /\ DelIdle
  /\ RecIdle
  /\ ExtIdle

DispatchNext ==
  \/ \E type \in RequestTypes : RequestArrives(type)
  \/ \E i \in 1..MaxRequests, settled \in AllSettled : RequestSettles(i, settled)

\* every callback a handler awaits is called in the end: a dispatch that has
\* not settled will (the requests of a behaviour are finitely many)
SpecDispatch ==
  /\ InitDispatch
  /\ [][DispatchNext]_vars
  /\ WF_vars(\E i \in 1..MaxRequests, settled \in AllSettled : RequestSettles(i, settled))

(***************************************************************************)
(* Properties of the dispatcher                                            *)
(***************************************************************************)
Answered(i) == Len(req[i].responses) = 1

OneProperResponse(r) ==
  /\ Len(r.responses) <= 1
  /\ r.pc = "settled" =>
       /\ Len(r.responses) = 1
       /\ r.responses[1].type # ""
       /\ (r.settled.kind = "throws" \/ r.type \notin DispatchedTypes) =>
            r.responses[1].type = "error"
       /\ r.settled.kind = "throws" => r.responses[1].message = r.settled.message

\* C16: every request message received by the background dispatcher gets
\* exactly one response, a success payload or {type: error, message}; a handler
\* that throws and a message of unknown type both yield the error response, and
\* no request is left unanswered.
C16_EveryRequestAnsweredOnce ==
  /\ [](\A i \in 1..Len(req) : OneProperResponse(req[i]))
  /\ <>[](\A i \in 1..Len(req) : Answered(i))

\* a request whose handler threw and a request of unknown type were both
\* answered with an error
C16_Witness ==
  /\ Len(req) = 2
  /\ req[1].type = "SAVE_TASK" /\ req[1].settled = Throwing("storage")
  /\ req[1].responses = << BackgroundResponse("error", "storage") >>
  /\ req[2].type = "GET_CONVERSATION_STATES"
  /\ req[2].responses = << BackgroundResponse("error", "Unknown message type") >>

(***************************************************************************)
(* Selector synthesis (content/selectors)                                  *)
(***************************************************************************)
MaxElements == 2     \* elements of the document, all children of its body

\* an element: its attributes (a sequence of name and value pairs, in document
\* order) and its tag
Element(attrs) == [tag |-> "div", attrs |-> attrs]

\* Element.getAttribute: the value in a one-element sequence, or <<>> for null
getAttribute(el, name) ==
  LET idx == FindIndex(el.attrs, LAMBDA a : a[1] = name)
  IN IF idx = NoIdx THEN <<>> ELSE << el.attrs[idx][2] >>

\* a value that is neither null nor the empty string
Truthy(v) == v # <<>> /\ v[1] # ""

\* the selectors buildSelectorInfo makes, by their parts:
\* #<CSS.escape(id)>, [data-testid="<value>"], and a path of tag, classes, nth-child
IdSelector(id) == [kind |-> "id", value |-> <<id>>]
TestIdSelector(testId) == [kind |-> "testid", value |-> <<testId>>]
PathSelector(parts) == [kind |-> "path", value |-> parts]
NoCss == [kind |-> "none", value |-> <<>>]

\* document.querySelectorAll("#" + CSS.escape(id)).length
countById(doc, id) ==
  Cardinality({i \in 1..Len(doc) : getAttribute(doc[i], "id") = <<id>>})

\* part_004 3-9: hasUniqueId
hasUniqueId(doc, i) ==
  LET id == getAttribute(doc[i], "id")
  IN IF Truthy(id) /\ countById(doc, id[1]) = 1 THEN IdSelector(id[1]) ELSE NoCss

\* part_004 11-17: dataTestId
dataTestId(doc, i) ==
  LET a == getAttribute(doc[i], "data-testid")
      testId == IF Truthy(a) THEN a ELSE getAttribute(doc[i], "data-test")
  IN IF Truthy(testId) THEN TestIdSelector(testId[1]) ELSE NoCss

\* part_004 19-36: fallbackCss, for a child of the body: one part, of the tag,
\* the classes and, with siblings, the position
fallbackCss(doc, i) ==
  LET class == getAttribute(doc[i], "class")
  IN PathSelector(<< [tag |-> doc[i].tag,
                      classes |-> IF Truthy(class) THEN class ELSE <<>>,
                      nth |-> IF Len(doc) > 1 THEN i ELSE 0] >>)

\* part_004 38-51: buildXPath, for a child of the body
buildXPath(doc, i) ==
  << "html", 1, "body", 1, doc[i].tag,
     Cardinality({j \in 1..i : doc[j].tag = doc[i].tag}) >>

\* the same with the test identifier consulted before the id
primaryCssTestIdFirst(doc, i) ==
  IF dataTestId(doc, i) # NoCss THEN dataTestId(doc, i)
  ELSE IF hasUniqueId(doc, i) # NoCss THEN hasUniqueId(doc, i)
  ELSE fallbackCss(doc, i)

\* part_004 54: hasUniqueId(el) || dataTestId(el) || fallbackCss(el)
primaryCss(doc, i) ==
  IF hasUniqueId(doc, i) # NoCss THEN hasUniqueId(doc, i)
  ELSE IF dataTestId(doc, i) # NoCss THEN dataTestId(doc, i)
  ELSE fallbackCss(doc, i)

\* part_004 53-64: buildSelectorInfo (the elements of the model have no text)
buildSelectorInfo(doc, i) ==
  [css |-> primaryCss(doc, i),
   xpath |-> buildXPath(doc, i),
   attributes |-> SelectSeq(doc[i].attrs,
                            LAMBDA a : a[1] \in {"data-testid", "data-test"})]

\* the elements of the model: each attribute absent, empty or with a value
AttrChoices(name) ==
  CASE name = "id" -> {<<>>, << <<"id", "">> >>, << <<"id", "a">> >>, << <<"id", "b">> >>}
    [] name = "data-testid" ->
         {<<>>, << <<"data-testid", "">> >>, << <<"data-testid", "t">> >>}
    [] name = "data-test" -> {<<>>, << <<"data-test", "u">> >>}
    [] OTHER -> {<<>>, << <<"class", "c">> >>}
ModelElements ==
  { Element(a \o b \o c \o d) :
      a \in AttrChoices("id"), b \in AttrChoices("data-testid"),
      c \in AttrChoices("data-test"), d \in AttrChoices("class") }
Documents ==
  UNION { [1..n -> ModelElements] : n \in 1..MaxElements }

\* part_003 313-346: a handler of the recorder calls buildSelectorInfo for the
\* target of an event
BuildSelector(i) ==
  /\ synth.target = 0
  /\ i \in 1..Len(synth.doc)
  /\ synth' = [synth EXCEPT !.target = i, !.info = buildSelectorInfo(synth.doc, i)]
  /\ UNCHANGED notSelVars

\* the first element in document order that `sels` holds of, 0 for none
FirstMatch(doc, sels) == IF sels = {} THEN 0 ELSE CHOOSE i \in sels : \A j \in sels : i <= j

\* document.querySelector on a selector buildSelectorInfo made: #id matches the
\* id attribute, [data-testid="v"] the data-testid attribute, a path the tag,
\* the classes and the position among the children of the parent
querySelector(doc, css) ==
  FirstMatch(doc,
    CASE css.kind = "id" ->
           {i \in 1..Len(doc) : getAttribute(doc[i], "id") = css.value}
      [] css.kind = "testid" ->
           {i \in 1..Len(doc) : getAttribute(doc[i], "data-testid") = css.value}
      [] css.kind = "path" ->
           {i \in 1..Len(doc) :
              /\ doc[i].tag = css.value[1].tag
              /\ css.value[1].classes \in {<<>>, getAttribute(doc[i], "class")}
              /\ css.value[1].nth \in {0, i}}
      [] OTHER -> {})

\* document.evaluate with FIRST_ORDERED_NODE_TYPE on a path buildXPath made
evaluateXPath(doc, xpath) ==
  IF xpath = <<>> THEN 0
  ELSE FirstMatch(doc,
         {i \in 1..Len(doc) :
            /\ doc[i].tag = xpath[5]
            /\ Cardinality({j \in 1..i : doc[j].tag = doc[i].tag}) = xpath[6]})

\* content/index 154-157: resolveElement, selector.css ? findByCss : findByXPath
resolveBuilt(doc, info) ==
  IF info.css # NoCss THEN querySelector(doc, info.css) ELSE evaluateXPath(doc, info.xpath)

\* content/index 159-169, 175-226: a step with the SelectorInfo that was built is
\* executed against the same document; waitForElement's attempts all see the
\* same document and give the same result
ExecuteBuilt ==
  /\ synth.target # 0
  /\ synth.resolved = <<>>
  /\ synth' = [synth EXCEPT !.resolved = << resolveBuilt(synth.doc, synth.info) >>]
  /\ UNCHANGED notSelVars

InitSelector ==
  /\ RunIdle
  /\ PageIdle
  /\ DelIdle
  /\ RecIdle
  /\ imp = ImpIdle
  /\ cap = CapIdle
  /\ req = <<>>
  /\ cv = CvIdle /\ lp = LoopIdle /\ hyd = HydIdle /\ rst = RstIdle
  /\ fz = FzIdle
  /\ \E doc \in Documents :
       synth = [doc |-> doc, target |-> 0, info |-> NoInfo, resolved |-> <<>>]

SelectorNext ==
  \/ \E i \in 1..MaxElements : BuildSelector(i)
  \/ ExecuteBuilt

SpecSelector == InitSelector /\ [][SelectorNext]_vars

(***************************************************************************)
(* Properties of the selector synthesis                                    *)
(***************************************************************************)
Built == synth.target # 0
Target == synth.doc[synth.target]

HasAttr(el, name) == getAttribute(el, name) # <<>>

\* the target has an id that no other element of the document has
IdIsUnique ==
  /\ HasAttr(Target, "id")
  /\ \A j \in 1..Len(synth.doc) :
       j # synth.target => getAttribute(synth.doc[j], "id") # getAttribute(Target, "id")

IdIsShared ==
  /\ HasAttr(Target, "id")
  /\ \E j \in 1..Len(synth.doc) :
       j # synth.target /\ getAttribute(synth.doc[j], "id") = getAttribute(Target, "id")

\* C20: buildSelectorInfo chooses the primary selector by strict priority: the
\* id-based selector whenever the element's id is unique in the document
\* (whatever its data-testid or classes), otherwise the attribute-equality
\* selector on the test identifier when a data-testid is present, and the
\* structural fallback only when neither applies; an element whose id is shared
\* with another element never gets the id-based selector.
C20_SelectorPriority ==
  Built =>
    /\ IdIsUnique => synth.info.css = IdSelector(getAttribute(Target, "id")[1])
    /\ (~IdIsUnique /\ HasAttr(Target, "data-testid")) =>
         synth.info.css = TestIdSelector(getAttribute(Target, "data-testid")[1])
    /\ synth.info.css.kind = "path" => (~IdIsUnique /\ ~HasAttr(Target, "data-testid"))
    /\ IdIsShared => synth.info.css.kind # "id"

NonEmpty(el, name) == Truthy(getAttribute(el, name))

\* C20, amended: the id and the data-testid count when they are not the empty
\* string.  The id-based selector whenever the element has a non-empty id that
\* is unique in the document (whatever its data-testid or classes), otherwise
\* the attribute-equality selector on the test identifier when a non-empty
\* data-testid is present, and the structural fallback only when neither
\* applies; an element whose id is shared never gets the id-based selector.
\* An empty id never gives the id-based selector, and with an empty data-testid
\* the data-test attribute, then the structural fallback, are consulted.
C20_SelectorPriorityNonEmpty ==
  Built =>
    /\ (IdIsUnique /\ NonEmpty(Target, "id")) =>
         synth.info.css = IdSelector(getAttribute(Target, "id")[1])
    /\ (~(IdIsUnique /\ NonEmpty(Target, "id")) /\ NonEmpty(Target, "data-testid")) =>
         synth.info.css = TestIdSelector(getAttribute(Target, "data-testid")[1])
    /\ synth.info.css.kind = "path" =>
         /\ ~(IdIsUnique /\ NonEmpty(Target, "id"))
         /\ ~NonEmpty(Target, "data-testid")
    /\ IdIsShared => synth.info.css.kind # "id"
    /\ synth.info.css.kind \in {"id", "testid", "path"}
    /\ ~NonEmpty(Target, "id") => synth.info.css.kind # "id"
    /\ (~(IdIsUnique /\ NonEmpty(Target, "id")) /\ ~NonEmpty(Target, "data-testid")) =>
         synth.info.css = IF NonEmpty(Target, "data-test")
                          THEN TestIdSelector(getAttribute(Target, "data-test")[1])
                          ELSE fallbackCss(synth.doc, synth.target)

\* an element with a unique id, a data-testid and a class got the id-based
\* selector, in a document whose other element has a data-testid only
C20_Witness ==
  /\ Built
  /\ Len(synth.doc) = 2
  /\ IdIsUnique /\ NonEmpty(Target, "id")
  /\ NonEmpty(Target, "data-testid") /\ NonEmpty(Target, "class")
  /\ synth.info.css = IdSelector("a")

Executed == synth.resolved # <<>>

\* C21: for every element of a document (also one identified only by a
\* data-test attribute, by a non-unique data-testid, or only by the structural
\* fallback), executing a step whose locator buildSelectorInfo produced for that
\* element, against the same unchanged document, resolves to that same element
\* and never reports element-not-found.
C21_BuiltSelectorResolvesItsElement ==
  Executed => synth.resolved = << synth.target >>

(***************************************************************************)
(* Conversation-state store (background/storage: getConversationStates,    *)
(* saveConversationState, deleteConversationState)                         *)
(***************************************************************************)
MaxConvCalls == 3    \* calls of the three functions in one behaviour, one after another

notCvVars == <<runVars, exeVars, delVars, heap, recordingBuffers, storedBuffers,
               conversationStates, hs, channel, recording, imp, cap, req, fz, synth, rst, hyd,
               lp>>

StoreConvIds == {"c1", "c2", "c3"}
StoreConvStates ==
  {ConversationState(c, h, 1, a) :
     c \in StoreConvIds, h \in {<< "user" >>, << "user", "assistant" >>}, a \in BOOLEAN}

\* storage.ts 180-184: deleteConversationState, from the list read to the list written
removeConvFrom(states, conversationId) ==
  SelectSeq(states, LAMBDA c : c.conversationId # conversationId)

\* a caller awaits one of the functions
ConvCall(op, arg) ==
  /\ cv.pc = "idle"
  /\ cv.n < MaxConvCalls
  /\ cv' = [pc |-> "read", n |-> cv.n + 1, op |-> op, arg |-> arg, snap |-> <<>>,
            before |-> storedConvs, result |-> <<>>]
  /\ UNCHANGED <<storedConvs, notCvVars>>

\* storage.ts 165-167, 170, 181: getFromStorage("conversationStates", []); the
\* key that was never set reads as the fallback, the empty list
ConvRead ==
  /\ cv.pc = "read"
  /\ cv' = IF cv.op = "get"
           THEN [cv EXCEPT !.pc = "idle", !.result = << storedConvs >>]
           ELSE [cv EXCEPT !.pc = "write", !.snap = storedConvs]
  /\ UNCHANGED <<storedConvs, notCvVars>>

\* storage.ts 171-177, 182-183: setToStorage of the list made from the list read
ConvWrite ==
  /\ cv.pc = "write"
  /\ storedConvs' = IF cv.op = "save" THEN upsertConvInto(cv.snap, cv.arg[1])
                    ELSE removeConvFrom(cv.snap, cv.arg[1])
  /\ cv' = [cv EXCEPT !.pc = "idle", !.snap = <<>>, !.result = << "resolved" >>]
  /\ UNCHANGED notCvVars

InitConv ==
  /\ RunIdle
  /\ PageIdle
  /\ DelIdle
  /\ RecIdle
  /\ ExtIdle

ConvNext ==
  \/ ConvCall("get", <<>>)
  \/ \E state \in StoreConvStates : ConvCall("save", << state >>)
  \/ \E c \in StoreConvIds : ConvCall("delete", << c >>)
  \/ ConvRead
  \/ ConvWrite

SpecConv == InitConv /\ [][ConvNext]_vars

(***************************************************************************)
(* Properties of the conversation-state store                              *)
(***************************************************************************)
ConvCallOver(op) == cv.pc = "idle" /\ cv.op = op
StoredAt(states, c) == {k \in 1..Len(states) : states[k].conversationId = c}

\* C22: saveConversationState keeps one entry per conversationId: saving a state
\* whose id is already stored replaces that entry in place and leaves the list
\* length and all other entries unchanged; deleteConversationState removes
\* exactly the entry with the given id and, when no such entry exists, changes
\* nothing and raises no error; reading an empty store yields the empty list.
C22_OneEntryPerConversation ==
  /\ \A c \in StoreConvIds : Cardinality(StoredAt(storedConvs, c)) <= 1
  /\ ConvCallOver("save") =>
       LET state == cv.arg[1]
           at == StoredAt(cv.before, state.conversationId)
       IN /\ cv.result = << "resolved" >>
          /\ at # {} =>
               /\ Len(storedConvs) = Len(cv.before)
               /\ \A k \in 1..Len(cv.before) :
                    storedConvs[k] = IF k \in at THEN state ELSE cv.before[k]
          /\ at = {} => storedConvs = Append(cv.before, state)
  /\ ConvCallOver("delete") =>
       LET at == StoredAt(cv.before, cv.arg[1])
           kept == [k \in 1..Len(storedConvs) |->
                      IF at # {} /\ \E j \in at : j <= k THEN k + 1 ELSE k]
       IN /\ cv.result = << "resolved" >>
          /\ at = {} => storedConvs = cv.before
          /\ at # {} => Len(storedConvs) = Len(cv.before) - 1
          /\ \A k \in 1..Len(storedConvs) : storedConvs[k] = cv.before[kept[k]]
          /\ StoredAt(storedConvs, cv.arg[1]) = {}
  /\ ConvCallOver("get") =>
       /\ cv.result = << cv.before >>
       /\ storedConvs = cv.before
       /\ cv.before = <<>> => cv.result = << <<>> >>

\* a save replaced the first of two stored entries, and it is first still
C22_Witness ==
  /\ ConvCallOver("save")
  /\ Len(cv.before) = 2
  /\ cv.before[1].conversationId = cv.arg[1].conversationId
  /\ cv.before[1] # cv.arg[1]
  /\ storedConvs = << cv.arg[1], cv.before[2] >>

(***************************************************************************)
(* finalizeFlowLog called more than once on one log (background/logger)    *)
(***************************************************************************)
MaxFinalize == 2     \* calls of finalizeFlowLog on the log object, one after another

notFzVars == <<tasks, flows, triggers, runs, signal, overlap, exeVars, delVars, recVars,
               imp, cap, req, cv, synth, rst, hyd, lp>>

\* models.ts RunStatus
RunStatuses == {"success", "failed", "partial"}

\* a log object as runFlow holds it before finalizing: created by createFlowLog,
\* with the step logs addStepLog pushed, and another run's log
FzFlow == Flow("f1", <<"t1">>, <<>>, TRUE)
FzLogs ==
  LET created == createFlowLog(1, FzFlow, "manual")
      one == pushStepLog(created, Step("s1", "click"), "success", "")
  IN {created, one, pushStepLog(one, Step("s2", "input"), "failed", "ng")}
OtherLog == setStatus(createFlowLog(2, Flow("f2", <<"t2">>, <<>>, TRUE), "url"), "success")

\* logger.ts 268-270: flowLog.status = status, then upsertLog is called
Finalize(status) ==
  /\ fz.pc = "idle"
  /\ fz.n < MaxFinalize
  /\ fz.flowLog # <<>>
  /\ fz' = [fz EXCEPT !.pc = "read", !.n = @ + 1,
                      !.flowLog = << setStatus(fz.flowLog[1], status) >>,
                      !.statuses = Append(@, status)]
  /\ UNCHANGED <<logs, notFzVars>>

\* storage.ts 116: getLogs() resolves
FzRead ==
  /\ fz.pc = "read"
  /\ fz' = [fz EXCEPT !.pc = "write", !.snap = logs]
  /\ UNCHANGED <<logs, notFzVars>>

\* storage.ts 117-123: the list read is updated and written
FzWrite ==
  /\ fz.pc = "write"
  /\ logs' = upsertInto(fz.snap, fz.flowLog[1])
  /\ fz' = [fz EXCEPT !.pc = "idle", !.snap = <<>>]
  /\ UNCHANGED notFzVars

\* the log object was persisted by addStepLog, or not yet (a run without steps),
\* next to another run's log or alone
InitFinalize ==
  /\ tasks = <<>> /\ flows = <<>> /\ triggers = <<>>
  /\ runs = <<>> /\ signal = NoSignal /\ overlap = FALSE
  /\ PageIdle /\ DelIdle /\ RecIdle
  /\ imp = ImpIdle /\ cap = CapIdle /\ req = <<>> /\ cv = CvIdle /\ lp = LoopIdle /\ hyd = HydIdle /\ rst = RstIdle /\ synth = SelIdle
  /\ \E log \in FzLogs :
       /\ logs \in {<<>>, << log >>, << OtherLog >>, << OtherLog, log >>, << log, OtherLog >>}
       /\ fz = [FzIdle EXCEPT !.flowLog = << log >>, !.before = << log >>]

FinalizeNext ==
  \/ \E status \in RunStatuses : Finalize(status)
  \/ FzRead
  \/ FzWrite

SpecFinalize == InitFinalize /\ [][FinalizeNext]_vars

(***************************************************************************)
(* Properties of finalizeFlowLog                                           *)
(***************************************************************************)
FinalizedTwice == fz.pc = "idle" /\ fz.n = 2

\* C23: finalizing the same FlowRunLog twice, with statuses s1 then s2, leaves
\* the persisted log with status s2 (last write wins) and still exactly one
\* entry for that log id in the persisted logs list, with its stepLogs unchanged.
C23_SecondFinalizeWins ==
  FinalizedTwice =>
    LogsOf(logs, fz.before[1].id) = << [fz.before[1] EXCEPT !.status = fz.statuses[2]] >>

\* two finalizations with different statuses, of a log with step logs that was
\* stored next to another run's log
C23_Witness ==
  /\ FinalizedTwice
  /\ fz.statuses[1] # fz.statuses[2]
  /\ fz.before[1].stepLogs # <<>>
  /\ Len(logs) = 2
  /\ fz.flowLog[1].status = fz.statuses[2]

(***************************************************************************)
(* Properties of the flow runner's log                                     *)
(***************************************************************************)
\* C24: every invocation of runFlow records its outcome in a persisted
\* FlowRunLog: also an invocation that ends because the flow id is unknown or
\* because no target tab can be determined leaves a log entry for that attempt.
C24_EveryInvocationLogged ==
  \A r \in 1..Len(runs) : Finished(r) => LogsOf(logs, r) # <<>>

\* C27: once runFlow has returned (resolved or rejected), the persisted
\* FlowRunLog of that run never has status partial: partial is observable in
\* storage only while the run is in progress, and every path of a run ends with
\* the log persisted as success or failed.
C27_NoPartialAfterReturn ==
  \A r \in 1..Len(runs) :
    Finished(r) => \A k \in 1..Len(logs) : logs[k].id = r => logs[k].status # "partial"

\* the log object of the run exists: createFlowLog was called
HasLog(r) == runs[r].flowLog # NoLog

\* C28: during one runFlow invocation the run's log is finalized exactly once,
\* on every path including the one where a log write fails inside the step
\* loop, and after finalization no further StepRunLog is appended to it and its
\* status never changes.
C28_FinalizedExactlyOnce ==
  /\ [](\A r \in 1..Len(runs) : (Finished(r) /\ HasLog(r)) => runs[r].fins = 1)
  /\ [][\A r \in 1..Len(runs) :
         runs[r].fins >= 1 => runs'[r].flowLog = runs[r].flowLog]_vars

\* the step logs name the steps sent, one each and in the order of sending
OnePerStepSent(run, stepLogs) ==
  /\ Len(stepLogs) <= Len(run.results)
  /\ \A k \in 1..Len(stepLogs) : stepLogs[k].stepId = run.steps[k].id

\* C29: a FlowRunLog holds exactly one StepRunLog per step sent to the executor,
\* in execution order: no step is logged twice and none appears with two
\* different statuses, including when persisting a step log or the finalization
\* fails and the error path of runFlow is taken.
C29_OneStepLogPerStepSent ==
  \A r \in 1..Len(runs) :
    /\ HasLog(r) => OnePerStepSent(runs[r], runs[r].flowLog.stepLogs)
    /\ Finished(r) /\ HasLog(r) => Len(runs[r].flowLog.stepLogs) = Len(runs[r].results)
    /\ \A k \in 1..Len(logs) :
         logs[k].id = r => OnePerStepSent(runs[r], logs[k].stepLogs)

(***************************************************************************)
(* Properties of the conversation state                                    *)
(***************************************************************************)
\* part_002 667-681: tryRestoreDialog after a tab's load is complete: the
\* conversations a RestoreChatDialog message is sent for
tryRestoreDialog(states, tabId) ==
  {c \in DOMAIN states :
     states[c].conversationId # "" /\ states[c].tabId = tabId /\ states[c].isActive}

\* the conversational turn of handler h is complete: its reply is returned
TurnOver(h) ==
  /\ hs[h].kind = "conv"
  /\ hs[h].pc = "done"
  /\ hs[h].result.type = "llmConversation"

StoredConv(c) == SelectSeq(storedConvs, LAMBDA st : st.conversationId = c)

\* C25: after a conversational turn completes, the persisted history of the
\* conversation is the history before the turn followed by the user message and
\* exactly one assistant reply, for every kind of collaborator result (execute,
\* report, plain reply): the reply is never appended twice.
C25_ReplyAppendedOnce ==
  \A h \in 1..Len(hs) :
    TurnOver(h) =>
      /\ Len(StoredConv(hs[h].convId)) = 1
      /\ StoredConv(hs[h].convId)[1].history = << "user", "assistant" >>

\* C26: a ConversationState's isActive flag is true only while a multi-step
\* execution of that conversation is in flight: once the turn has completed and
\* its reply has been returned, the persisted and the in-memory state have
\* isActive = false, so a later tab-load-complete on that tab sends no restore
\* message for the idle conversation.
C26_IdleConversationInactive ==
  \A h \in 1..Len(hs) :
    TurnOver(h) =>
      /\ ~conversationStates[hs[h].convId].isActive
      /\ \A k \in 1..Len(storedConvs) :
           storedConvs[k].conversationId = hs[h].convId => ~storedConvs[k].isActive
      /\ hs[h].convId \notin tryRestoreDialog(conversationStates, hs[h].tabId)

(***************************************************************************)
(* Properties of the order of the steps sent                               *)
(***************************************************************************)
\* the steps runFlow invocation r has sent and the answers it has got
SentByRun(r) == IF runs[r].pc \in {"start", "rejected"} /\ ~HasLog(r) THEN 0 ELSE runs[r].i
\* runFlow invocation r sends its next step in this step of the behaviour
RunSendsNext(r) == runs[r].i >= 1 /\ runs'[r].i = runs[r].i + 1
\* handler h of an LLM request sends its next step in this step of the behaviour
LoopSendsNext(h) == Len(hs[h].sent) >= 1 /\ Len(hs'[h].sent) = Len(hs[h].sent) + 1

\* the step is in the run's persisted log
LoggedIn(stored, r, k) ==
  \E j \in 1..Len(stored) :
    /\ stored[j].id = r
    /\ Len(stored[j].stepLogs) >= k
    /\ stored[j].stepLogs[k].stepId = runs[r].steps[k].id

\* the step is in the handler's recording buffer
RecordedIn(buffers, hr, k) ==
  \E j \in 1..Len(buffers[hr.buf].steps) : buffers[hr.buf].steps[j].id = hr.sent[k].id

\* C30: within one runFlow invocation and within one LLM-driven execute loop at
\* most one step is in flight at any time: step N+1 is sent to the tab only
\* after the result, or the channel error, of step N has been received and
\* logged or recorded.
C30_OneStepInFlight ==
  /\ [](/\ \A r \in 1..Len(runs) : SentByRun(r) - Len(runs[r].results) \in {0, 1}
        /\ \A h \in LlmHandlers : Len(hs[h].sent) - Len(hs[h].outcomes) \in {0, 1})
  /\ [][/\ \A r \in 1..Len(runs) :
            RunSendsNext(r) =>
              /\ Len(runs[r].results) = runs[r].i
              /\ LoggedIn(logs', r, runs[r].i)
        /\ \A h \in LlmHandlers :
            LoopSendsNext(h) =>
              /\ Len(hs[h].outcomes) = Len(hs[h].sent)
              /\ RecordedIn(heap', hs[h], Len(hs[h].sent))]_vars

(***************************************************************************)
(* Properties of the whole-list read-modify-write                          *)
(***************************************************************************)
\* the final log of run r is not in the persisted list, or not in its final state
EffectLost(r) == runs[r].pc = "done" /\ ~HasFinalLog(r)

\* C31: two mutations of the same persisted list (upsertLog calls of two
\* concurrent runs) whose read-modify-write phases interleave can leave the
\* list without the effect of one of them, while two mutations whose
\* read-modify-write phases do not overlap are always both reflected in the
\* list: when every run is over and no upsertLog wrote a list it had read
\* before another write, every run that returned has its final log in the list.
C31_LostOnlyWhenPhasesOverlap ==
  AllFinished => ((\E r \in 1..Len(runs) : EffectLost(r)) => overlap)

\* two runs are over, their read-modify-write phases overlapped, and the list
\* holds the final log of one of them and not that of the other
C31_Witness ==
  /\ AllFinished
  /\ overlap
  /\ \E r1, r2 \in 1..Len(runs) :
       /\ runs[r1].pc = "done" /\ runs[r2].pc = "done"
       /\ HasFinalLog(r1)
       /\ EffectLost(r2)

\* two runs are over, their phases did not overlap, both final logs are there
C31_WitnessBoth ==
  /\ AllFinished
  /\ ~overlap
  /\ \E r1, r2 \in 1..Len(runs) :
       r1 # r2 /\ HasFinalLog(r1) /\ HasFinalLog(r2)

(***************************************************************************)
(* Restore of the chat dialog (background/index: tabs.onUpdated listener)  *)
(***************************************************************************)
MaxConvs == 2        \* conversations in the in-memory map
maxRetries == 5      \* part_002 664

notRstVars == <<runVars, exeVars, delVars, recVars, imp, cap, req, cv, fz, synth, hyd, lp>>

RstTabs == {1, 2}
ConvName(k) == <<"conv", k>>

\* the in-memory map as the sequence of its values, in insertion order, keys
\* distinct: what Map.entries() iterates
ConvMaps ==
  UNION { { m \in [1..n -> {ConversationState(ConvName(k), << "user" >>, t, a) :
                               k \in 1..MaxConvs, t \in RstTabs, a \in BOOLEAN}] :
              \A i, j \in 1..n : i # j => m[i].conversationId # m[j].conversationId } :
          n \in 0..MaxConvs }

\* Map.set: the value of a present key is replaced where it is, a new key is
\* added at the end
mapSetConv(states, state) == upsertConvInto(states, state)

\* the first entry of the map that is bound to the tab, active or not
firstBound(states, tabId) == FindIndex(states, LAMBDA st : st.tabId = tabId)

\* part_002 668-669: the first entry of the map that is bound to the tab and
\* active, NoIdx for none
firstActive(states, tabId) ==
  FindIndex(states, LAMBDA st : st.tabId = tabId /\ st.isActive)

RestoreChatDialog(state) ==
  [type |-> "RESTORE_CHAT_DIALOG", conversationId |-> state.conversationId,
   history |-> state.history, tabId |-> state.tabId]

\* part_002 657-666, 683: a tab reports a status; when it is complete and the tab
\* has a url, the first tryRestoreDialog is scheduled (the url triggers that the
\* same listener runs are the matter of TabUpdated); atLoad keeps the map of
\* that moment (history)
TabLoaded(tabId, status, url) ==
  /\ rst.pc = "idle"
  /\ rst' = [rst EXCEPT !.tabId = tabId, !.status = status, !.url = url,
                        !.atLoad = rst.states,
                        !.pc = IF status = "complete" /\ url # "" THEN "timer" ELSE "none"]
  /\ UNCHANGED notRstVars

\* part_002 667-670, 679-680: the timer fires, tryRestoreDialog runs: the message
\* is sent for the first active conversation of the tab, or nothing happens;
\* tries keeps the map each run saw (history)
TryRestore ==
  /\ rst.pc = "timer"
  /\ LET idx == firstActive(rst.states, rst.tabId)
         tried == [rst EXCEPT !.tries = Append(@, rst.states)]
     IN rst' = IF idx = NoIdx THEN [tried EXCEPT !.pc = "over"]
               ELSE [tried EXCEPT !.pc = "sending",
                                  !.sends = Append(@, RestoreChatDialog(rst.states[idx]))]
  /\ UNCHANGED notRstVars

\* part_002 670-677: the callback of the send: a failed send is retried while
\* retryCount < maxRetries
RestoreSendDone(ok) ==
  /\ rst.pc = "sending"
  /\ rst' = IF ~ok /\ rst.retryCount < maxRetries
            THEN [rst EXCEPT !.pc = "timer", !.retryCount = @ + 1,
                             !.results = Append(@, ok)]
            ELSE [rst EXCEPT !.pc = "over", !.results = Append(@, ok)]
  /\ UNCHANGED notRstVars

\* part_002 386-391: a conversational turn starts meanwhile and sets its state
\* in the map, active, bound to the tab it was started in
TurnStarts(k, tabId) ==
  /\ rst.turns = 0
  /\ rst.pc \in {"idle", "timer", "sending"}
  /\ \/ Len(rst.states) < MaxConvs
     \/ \E i \in 1..Len(rst.states) : rst.states[i].conversationId = ConvName(k)
  /\ LET state == ConversationState(ConvName(k), << "user", "assistant", "user" >>,
                                      tabId, TRUE)
     IN rst' = [rst EXCEPT !.turns = 1,
                           !.states = mapSetConv(@, state),
                           !.stored = upsertConvInto(@, state)]
  /\ UNCHANGED notRstVars

\* part_002 572-619, 621-629: a DeleteConversationState request for conversation
\* k arrives before the tab's load: the listener calls dispatch and sends what it
\* returns; dispatch has no case for the type, so neither
\* deleteConversationState (storage.ts 180-184) nor conversationStates.delete
\* is called
DeleteConversationRequested(k) ==
  /\ rst.pc = "idle"
  /\ rst.deleted = <<>>
  /\ \E settled \in dispatch("DELETE_CONVERSATION_STATE") :
       rst' = [rst EXCEPT !.deleted = Append(@, ConvName(k)),
                          !.responses = @ \o (IF settled.kind = "returns"
                                              THEN << settled.response >>
                                              ELSE listenerCatch(settled))]
  /\ UNCHANGED notRstVars

InitRestore ==
  /\ RunIdle
  /\ PageIdle
  /\ DelIdle
  /\ RecIdle
  /\ imp = ImpIdle /\ cap = CapIdle /\ req = <<>> /\ cv = CvIdle /\ lp = LoopIdle /\ hyd = HydIdle /\ fz = FzIdle
  /\ synth = SelIdle
  /\ \E m \in ConvMaps : rst = [RstIdle EXCEPT !.states = m, !.stored = m]

RestoreNext ==
  \/ \E t \in RstTabs, st \in {"loading", "complete"}, u \in {"", UrlExample} :
       TabLoaded(t, st, u)
  \/ TryRestore
  \/ \E ok \in BOOLEAN : RestoreSendDone(ok)
  \/ \E k \in 1..MaxConvs, t \in RstTabs : TurnStarts(k, t)
  \/ \E k \in 1..MaxConvs : DeleteConversationRequested(k)

SpecRestore == InitRestore /\ [][RestoreNext]_vars

(***************************************************************************)
(* Properties of the restore                                               *)
(***************************************************************************)
LoadHandled == rst.pc \in {"none", "over"}

ActiveOn(st, tabId) == st.tabId = tabId /\ st.isActive
NoneActive(m, tabId) == \A i \in 1..Len(m) : ~ActiveOn(m[i], tabId)

\* the sends of one load event: at most 1 plus maxRetries, each after the
\* failure of the one before, each with the id and the history of the first
\* active conversation of the tab in the map the run saw
SendsAreRetries ==
  /\ Len(rst.sends) <= maxRetries + 1
  /\ Len(rst.results) <= Len(rst.sends)
  /\ \A k \in 1..Len(rst.sends) :
       /\ \A j \in 1..(k - 1) : ~rst.results[j]
       /\ \E i \in 1..Len(rst.tries[k]) :
            /\ ActiveOn(rst.tries[k][i], rst.tabId)
            /\ \A j \in 1..(i - 1) : ~ActiveOn(rst.tries[k][j], rst.tabId)
            /\ rst.sends[k].type = "RESTORE_CHAT_DIALOG"
            /\ rst.sends[k].conversationId = rst.tries[k][i].conversationId
            /\ rst.sends[k].history = rst.tries[k][i].history

\* C32: when a tab finishes loading and an active conversation is bound to that
\* tab, the background sends RestoreChatDialog with that conversation's id and
\* history to the tab, resends while the send fails, stops at the first
\* successful send, and makes at most 6 sends (1 plus 5 retries) for that load
\* event; for a tab with no active conversation it sends none.
C32_RestoreSentForActiveConversation ==
  /\ SendsAreRetries
  /\ LoadHandled =>
       /\ (rst.status = "complete" /\ ~NoneActive(rst.atLoad, rst.tabId)
             /\ rst.turns = 0)
            => /\ rst.sends # <<>>
               /\ rst.results[Len(rst.results)] \/ Len(rst.sends) = maxRetries + 1
       /\ (NoneActive(rst.atLoad, rst.tabId) /\ rst.turns = 0) => rst.sends = <<>>

\* C32, amended: the restore starts only for a load event that reports status
\* complete together with a url.  Each run of tryRestoreDialog reads the map
\* anew: it sends RestoreChatDialog with the id and history of the first active
\* conversation bound to the tab, in the map's order, and sends nothing and
\* ends the retries when there is none.  A failed send is followed by another
\* run, a successful one by none, and there are at most 6 sends (1 plus 5
\* retries) for the load event.  Without url, or when the first run finds no
\* active conversation of the tab, nothing is sent.
C32_RestoreSentWhenUrlAndActive ==
  /\ SendsAreRetries
  /\ rst.pc = "none" => (rst.tries = <<>> /\ rst.sends = <<>>)
  /\ rst.pc \in {"timer", "sending", "over"} => (rst.status = "complete" /\ rst.url # "")
  /\ rst.pc = "over" =>
       /\ Len(rst.results) = Len(rst.sends)
       /\ rst.tries # <<>>
       /\ NoneActive(rst.tries[1], rst.tabId) => rst.sends = <<>>
       /\ ~NoneActive(rst.tries[1], rst.tabId) => rst.sends # <<>>
       /\ rst.sends # <<>> =>
            \/ rst.results[Len(rst.results)]
            \/ Len(rst.sends) = maxRetries + 1
            \/ /\ Len(rst.tries) = Len(rst.sends) + 1
               /\ NoneActive(rst.tries[Len(rst.tries)], rst.tabId)

\* five sends failed and the sixth succeeded, for the second conversation of
\* the map: the first one is bound to the tab and not active
C32_Witness ==
  /\ rst.pc = "over"
  /\ Len(rst.sends) = maxRetries + 1
  /\ rst.results[maxRetries + 1]
  /\ rst.turns = 0
  /\ Len(rst.states) = 2
  /\ rst.states[1].tabId = rst.tabId /\ ~rst.states[1].isActive
  /\ ActiveOn(rst.states[2], rst.tabId)
  /\ rst.sends[1].conversationId = rst.states[2].conversationId

HoldsConv(states, c) == \E i \in 1..Len(states) : states[i].conversationId = c

\* C33: a DeleteConversationState request for conversation c removes c's state
\* from persisted storage and from the in-memory conversation map and is
\* answered with a success response, so that no later tab-load-complete
\* restores c.
C33_DeleteRemovesConversation ==
  \A d \in 1..Len(rst.deleted) :
    /\ Len(rst.responses) = Len(rst.deleted)
    /\ rst.responses[d].type = "ok"
    /\ rst.turns = 0 =>
         /\ ~HoldsConv(rst.states, rst.deleted[d])
         /\ ~HoldsConv(rst.stored, rst.deleted[d])
         /\ \A k \in 1..Len(rst.sends) : rst.sends[k].conversationId # rst.deleted[d]

\* the request is answered with an error and the conversation it names is
\* restored at the next load of its tab
C33_DeletedConversationRestored ==
  /\ rst.deleted # <<>>
  /\ rst.responses = << BackgroundResponse("error", "Unknown message type") >>
  /\ rst.turns = 0
  /\ HoldsConv(rst.states, rst.deleted[1])
  /\ HoldsConv(rst.stored, rst.deleted[1])
  /\ rst.sends # <<>>
  /\ rst.sends[1].conversationId = rst.deleted[1]

(***************************************************************************)
(* Properties of the triggers' and the flows' enabled flags                *)
(***************************************************************************)
\* the runs started for trigger k
RunsOfTrigger(k) == {r \in 1..Len(runs) : runs[r].trig = triggers[k].id}

\* trigger k is enabled and names a stored flow that is enabled
Eligible(k) ==
  /\ triggers[k].enabled
  /\ \E i \in 1..Len(flows) : flows[i].id = triggers[k].flowId /\ flows[i].enabled

\* trigger k answers to the signal: its type and its pattern or name
Addressed(k) ==
  \/ /\ signal.kind = "nav" /\ signal.status = "complete" /\ signal.arg # ""
     /\ triggers[k].type = "url"
     /\ matchUrlPattern(triggers[k].urlPattern, signal.arg)
  \/ /\ signal.kind = "command"
     /\ triggers[k].type = "shortcut"
     /\ triggers[k].shortcutName = signal.arg

\* C34: a url or shortcut trigger starts its flow only if the trigger is
\* enabled, the flow it names exists, and that flow is enabled; a disabled
\* trigger, a trigger bound to a disabled flow and a trigger bound to a deleted
\* flow each start no run and create no log: every run and every log is that of
\* an eligible trigger, of a flow's own pattern, or of a RunFlow request.
C34_OnlyEligibleTriggersStartRuns ==
  /\ \A k \in 1..Len(triggers) :
       RunsOfTrigger(k) # {} =>
         /\ Eligible(k)
         /\ triggers[k].type \in {"url", "shortcut"}
         /\ \A r \in RunsOfTrigger(k) : runs[r].flowId = triggers[k].flowId
  /\ \A r \in 1..Len(runs) :
       \/ runs[r].trig \in {"auto", "request"}
       \/ \E k \in 1..Len(triggers) : r \in RunsOfTrigger(k)
  /\ \A j \in 1..Len(logs) :
       \E r \in 1..Len(runs) : logs[j].id = r /\ logs[j].flowId = runs[r].flowId

\* a navigation addressed a disabled trigger and an enabled one, both bound to
\* the same enabled flow: one run, that of the enabled trigger, and its log
C34_Witness ==
  /\ signal.kind = "nav"
  /\ \E k1, k2 \in 1..Len(triggers) :
       /\ Addressed(k1) /\ ~triggers[k1].enabled /\ RunsOfTrigger(k1) = {}
       /\ Addressed(k2) /\ Eligible(k2) /\ RunsOfTrigger(k2) # {}
       /\ triggers[k1].flowId = triggers[k2].flowId
  /\ AllFinished
  /\ Len(runs) = 1 /\ Len(logs) = 1

\* a command addressed a trigger bound to a disabled flow: no run, no log
C34_WitnessDisabledFlow ==
  /\ signal.kind = "command"
  /\ \E k \in 1..Len(triggers) :
       /\ Addressed(k) /\ triggers[k].enabled
       /\ \E i \in 1..Len(flows) : flows[i].id = triggers[k].flowId /\ ~flows[i].enabled
  /\ runs = <<>> /\ logs = <<>>

\* a navigation addressed a trigger bound to a flow that is not stored
C34_WitnessDeletedFlow ==
  /\ signal.kind = "nav"
  /\ \E k \in 1..Len(triggers) :
       /\ Addressed(k) /\ triggers[k].enabled
       /\ \A i \in 1..Len(flows) : flows[i].id # triggers[k].flowId
       /\ RunsOfTrigger(k) = {}

(***************************************************************************)
(* Properties of the number of runs of one navigation                      *)
(***************************************************************************)
NavigationComplete ==
  signal.kind = "nav" /\ signal.status = "complete" /\ signal.arg # ""

\* the enabled url triggers that match the url and whose flow is enabled
EligibleUrlTriggers == {k \in 1..Len(triggers) : Addressed(k) /\ Eligible(k)}

\* the enabled flows with at least one auto-run pattern that matches the url
SelfTriggeredFlows ==
  {i \in 1..Len(flows) :
     /\ flows[i].enabled
     /\ \E p \in 1..Len(flows[i].autoRunUrlPatterns) :
          matchUrlPattern(flows[i].autoRunUrlPatterns[p], signal.arg)}

RunsOfFlow(i) == {r \in 1..Len(runs) : runs[r].flowId = flows[i].id}

\* C35: for one navigation-complete event the number of flow runs started is
\* the number of enabled matching url triggers whose flow is enabled plus the
\* number of enabled flows with at least one matching auto-run pattern: a flow
\* with several matching patterns of its own is started once for them, and a
\* flow matched both by a trigger and by its own pattern is started twice.
C35_RunsPerNavigation ==
  NavigationComplete =>
    /\ Len(runs) = Cardinality(EligibleUrlTriggers) + Cardinality(SelfTriggeredFlows)
    /\ \A i \in SelfTriggeredFlows :
         Cardinality({r \in RunsOfFlow(i) : runs[r].trig = "auto"}) = 1
    /\ \A k \in EligibleUrlTriggers : Cardinality(RunsOfTrigger(k)) = 1
    /\ \A r \in 1..Len(runs) : runs[r].by = "url" /\ runs[r].explicitTabId = signal.tabId

\* one navigation matched a trigger of a flow and a pattern of the same flow:
\* the flow was started twice and both runs are over
C35_Witness ==
  /\ NavigationComplete
  /\ \E i \in SelfTriggeredFlows, k \in EligibleUrlTriggers :
       /\ triggers[k].flowId = flows[i].id
       /\ Cardinality(RunsOfFlow(i)) = 2
  /\ Len(runs) = 2
  /\ AllFinished

\* one navigation matched two patterns of one flow: the flow was started once
C35_WitnessTwoPatterns ==
  /\ NavigationComplete
  /\ \E i \in SelfTriggeredFlows :
       /\ Cardinality({p \in 1..Len(flows[i].autoRunUrlPatterns) :
                         matchUrlPattern(flows[i].autoRunUrlPatterns[p], signal.arg)}) = 2
       /\ Cardinality(RunsOfFlow(i)) = 1
  /\ AllFinished

(***************************************************************************)
(* Properties of the buffers the LLM handlers open                         *)
(***************************************************************************)
\* C36: when RunLlmPrompt or RunLlmConversation returns, with a result or with
\* an error response, no recording buffer created by that handler remains in
\* the in-memory map or in storage for the tab, so that GetState does not keep
\* reporting recording = true afterwards.
C36_NoBufferLeftByLlmHandler ==
  \A h \in LlmHandlers :
    (hs[h].pc = "done" /\ hs[h].buf # NoBuf) =>
      /\ recordingBuffers[hs[h].tabId] # hs[h].buf
      /\ \A j \in 1..Len(storedBuffers) : storedBuffers[j].sessionId # h

\* the handlers that have returned opened every stored buffer there is, so
\* GetState answers recording = true for no recording that goes on
C36_BufferLeftBehind ==
  /\ \A h \in 1..Len(hs) : hs[h].pc = "done"
  /\ \E h \in LlmHandlers :
       /\ hs[h].result.type = "error"
       /\ hs[h].buf # NoBuf
       /\ recordingBuffers[hs[h].tabId] = hs[h].buf
       /\ \E j \in 1..Len(storedBuffers) : storedBuffers[j].sessionId = h
  /\ Len(storedBuffers) > 0

(***************************************************************************)
(* Properties of the keys of the persisted lists                           *)
(***************************************************************************)
OnePerId(list) == Cardinality(idSet(list)) = Len(list)

\* C37: after any sequence of save, delete and import operations that do not
\* overlap in time, each persisted list contains at most one entry per key
\* (here: the lists an import writes, tasks, flows and triggers, by id).
C37_OneEntryPerKey ==
  imp.pc \in {"idle", "done"} => \A k \in StorageKeys : OnePerId(Stored(k))

\* one import in replace mode has succeeded and the stored tasks hold an id twice
C37_ReplaceStoresDuplicates ==
  /\ ImportSucceeded
  /\ imp.n = 1
  /\ imp.mode = "replace"
  /\ \A k \in StorageKeys : OnePerId(imp.before[k])
  /\ ~OnePerId(tasks)

(***************************************************************************)
(* Properties of the RecordStep messages                                   *)
(***************************************************************************)
RECURSIVE AcceptedSteps(_)
\* the steps of the RecordStep messages answered ok, in arrival order
AcceptedSteps(handlers) ==
  IF handlers = <<>> THEN <<>>
  ELSE (IF Head(handlers).kind = "record" /\ Head(handlers).result.type = "ok"
        THEN << Head(handlers).step >> ELSE <<>>) \o AcceptedSteps(Tail(handlers))

\* only RecordStep messages have been handled, and all of them are answered
OnlyRecordSteps ==
  /\ hs # <<>>
  /\ \A h \in 1..Len(hs) : hs[h].kind = "record" /\ hs[h].pc = "done"

\* C38: a RecordStep message from a tab that has no buffer in memory or in
\* storage is answered with an error and stores nothing; RecordStep messages
\* from a tab that has a buffer are appended to that tab's buffer in arrival
\* order, each exactly once, also when several of them are handled
\* concurrently: when only RecordStep messages were handled, the stored buffer
\* of the tab holds the steps it held before followed by the steps of the
\* messages, in arrival order, and every message is answered ok.
C38_RecordStepsAppendedInOrder ==
  OnlyRecordSteps =>
    /\ \A h \in 1..Len(hs) : hs[h].result.type = "ok"
    /\ storedBuffers = << [CapturedOne EXCEPT !.steps = @ \o AcceptedSteps(hs)] >>

\* two RecordStep messages were answered ok and the stored buffer holds the
\* step of one of them only
C38_StepLost ==
  /\ OnlyRecordSteps
  /\ Len(hs) = 2
  /\ \A h \in 1..Len(hs) : hs[h].result.type = "ok"
  /\ Len(storedBuffers) = 1
  /\ Len(storedBuffers[1].steps) = 2

(***************************************************************************)
(* Start-up hydration of the recordingBuffers map (background/index)       *)
(***************************************************************************)
notHydVars == <<runVars, exeVars, delVars, storedBuffers, conversationStates, storedConvs,
                hs, channel, recording, imp, cap, req, cv, fz, synth, rst, lp>>

\* the entry of the list a forEach over it sets last for the tab
lastBuffer(buffers, tabId) ==
  CHOOSE i \in 1..Len(buffers) :
    /\ buffers[i].tabId = tabId
    /\ \A j \in (i + 1)..Len(buffers) : buffers[j].tabId # tabId

\* part_002 79, storage.ts 160-162: the getRecordingBuffers() of the start-up
\* answers with the list stored at that moment
HydrateRead ==
  /\ hyd.pc = "pending"
  /\ hyd' = [pc |-> "read", snap |-> storedBuffers]
  /\ UNCHANGED <<heap, recordingBuffers, notHydVars>>

\* part_002 81, storage.ts 41-45: the read fails and the map is left as it is
HydrateFails ==
  /\ hyd.pc = "pending"
  /\ hyd' = [pc |-> "failed", snap |-> <<>>]
  /\ UNCHANGED <<heap, recordingBuffers, notHydVars>>

\* part_002 80: buffers.forEach((b) => recordingBuffers.set(b.tabId, b)): every
\* buffer read is an object of its own and is set in the map, whatever the map
\* holds for the tab
HydrateThen ==
  /\ hyd.pc = "read"
  /\ heap' = heap \o hyd.snap
  /\ recordingBuffers' =
       [t \in DOMAIN recordingBuffers |->
          IF findBuffer(hyd.snap, t) # NoIdx
          THEN Len(heap) + lastBuffer(hyd.snap, t) ELSE recordingBuffers[t]]
  /\ hyd' = [pc |-> "done", snap |-> <<>>]
  /\ UNCHANGED notHydVars

\* the service worker starts: the map is empty, the hydration is issued, and a
\* recording may be going on in the tab, its buffer stored
InitHydrate ==
  /\ tasks = <<>>
  /\ flows = <<>>
  /\ triggers = <<>>
  /\ logs = <<>>
  /\ runs = <<>>
  /\ signal = NoSignal
  /\ overlap = FALSE
  /\ PageIdle
  /\ DelIdle
  /\ imp = ImpIdle /\ cap = CapIdle /\ req = <<>> /\ cv = CvIdle /\ lp = LoopIdle /\ fz = FzIdle
  /\ rst = RstIdle /\ synth = SelIdle
  /\ conversationStates = [c \in ConvIds |-> NoConv]
  /\ storedConvs = <<>>
  /\ hs = <<>>
  /\ channel = TRUE
  /\ heap = <<>>
  /\ recordingBuffers = [t \in Tabs |-> NoBuf]
  /\ hyd = [pc |-> "pending", snap |-> <<>>]
  /\ \/ storedBuffers = <<>> /\ recording = FALSE
     \/ storedBuffers = <<CapturedOne>> /\ recording = TRUE

\* the hydration and the handlers of StartRecording, StopRecording and RecordStep
HydrateNext ==
  \/ HydrateRead
  \/ HydrateFails
  \/ HydrateThen
  \/ \E kind \in {"start", "stop"} : RecRequest(kind)
  \/ \E type \in {"click"} : PageEvent(type)
  \/ \E h \in 1..MaxHandlers : StartGotTab(h)
  \/ \E h \in 1..MaxHandlers : EnsureRead(h)
  \/ \E h \in 1..MaxHandlers : UpsertRead(h)
  \/ \E h \in 1..MaxHandlers : StartUpsertWrite(h)
  \/ \E h \in 1..MaxHandlers : RecordUpsertWrite(h)
  \/ \E h \in 1..MaxHandlers : StopGotTab(h)
  \/ \E h \in 1..MaxHandlers : StopGetBuf(h)
  \/ \E h \in 1..MaxHandlers : TaskRead(h)
  \/ \E h \in 1..MaxHandlers : TaskWrite(h)
  \/ \E h \in 1..MaxHandlers : RmRead(h)
  \/ \E h \in 1..MaxHandlers : StopRmWrite(h)
  \/ ChannelChange

SpecHydrate == InitHydrate /\ [][HydrateNext]_vars

(***************************************************************************)
(* Properties of the hydration                                             *)
(***************************************************************************)
\* the map holds, for each tab, the buffer the stored list holds for it
WriteThrough ==
  \A t \in DOMAIN recordingBuffers :
    IF recordingBuffers[t] = NoBuf
    THEN findBuffer(storedBuffers, t) = NoIdx
    ELSE /\ findBuffer(storedBuffers, t) # NoIdx
         /\ storedBuffers[findBuffer(storedBuffers, t)] = heap[recordingBuffers[t]]

Quiescent == hyd.pc = "done" /\ \A h \in 1..Len(hs) : hs[h].pc = "done"

\* C39: once the start-up hydration and every handler in flight have
\* completed, the in-memory recordingBuffers map holds, for each tab, the same
\* buffer as the persisted recordingBuffers list; in particular a hydration
\* that completes after a StartRecording or RecordStep handler has run does not
\* replace the newer in-memory buffer with the stale stored one.
C39_MapCoherentWithStorage == Quiescent => WriteThrough

\* one StartRecording was handled and answered while the hydration was in
\* flight; the hydration completed after it and the map holds the buffer of
\* the recording before, the stored list the new one
C39_StaleBufferInMap ==
  /\ Quiescent
  /\ Len(hs) = 1 /\ hs[1].kind = "start" /\ hs[1].result.type = "state"
  /\ storedBuffers = << heap[hs[1].buf] >>
  /\ recordingBuffers[1] # hs[1].buf
  /\ heap[recordingBuffers[1]] = CapturedOne

(***************************************************************************)
(* The execute loop of a conversational turn (background/index:            *)
(* handleRunLlmConversation), with its wait for the navigation             *)
(***************************************************************************)
MaxLoopSteps == 2    \* steps of the list the LLM answered with
maxPolls == 20       \* part_002 463

notLoopVars == <<runVars, exeVars, delVars, recVars, imp, cap, req, cv, fz, synth, rst, hyd>>

LoopStepTypes == {"click", "input"}
LoopStepLists ==
  UNION { { [k \in 1..n |-> Step(<<"l", k>>, types[k])] : types \in [1..n -> LoopStepTypes] } :
          n \in 0..MaxLoopSteps }

\* what chrome.tabs.get answers a poll with: the tab, or lastError
TabSeen(url, status) == [failed |-> FALSE, url |-> url, status |-> status]
QueryFailed == [failed |-> TRUE, url |-> "", status |-> ""]
PollResults ==
  {QueryFailed} \cup {TabSeen(u, st) : u \in Urls \cup {""}, st \in TabStatuses}

\* the same when the tab's status is not looked at
navigatedAnyStatus(tab, previousUrl) ==
  ~tab.failed /\ tab.url # "" /\ tab.url # previousUrl

\* part_002 473: updatedTab.url && updatedTab.url !== previousUrl &&
\* updatedTab.status === "complete"; a rejected query goes to the empty catch
navigated(tab, previousUrl) ==
  ~tab.failed /\ tab.url # "" /\ tab.url # previousUrl /\ tab.status = "complete"

\* part_002 429, 490-493: the next iteration of the step loop, also after the
\* loop's catch block; after the last step the handler goes on behind the loop
NextStep(l) ==
  [l EXCEPT !.i = @ + 1, !.waitCount = 0, !.seenNavigation = FALSE,
            !.pc = IF l.i + 1 > Len(l.steps) THEN "after" ELSE "save"]

\* part_002 432-443: the timer before a click is over and the conversation's
\* state, when the map holds it, is saved before the step is sent; a save that
\* fails is caught by the loop, which goes on with the next step
StateSaved(ok) ==
  /\ lp.pc = "save"
  /\ ok \/ lp.present
  /\ lp' = IF ok THEN [lp EXCEPT !.pc = "sent"] ELSE NextStep(lp)
  /\ UNCHANGED notLoopVars

\* part_002 445-446, 488-492: the tab answers the step: a success goes on to
\* record it, a failure result does nothing, a channel error is caught
StepAnswered(outcome) ==
  /\ lp.pc = "sent"
  /\ lp' = IF outcome = "ok"
            THEN [lp EXCEPT !.pc = "record", !.executed = Append(@, lp.steps[lp.i])]
            ELSE NextStep(lp)
  /\ UNCHANGED notLoopVars

\* part_002 447-457: the step is recorded and the buffer upserted, the
\* conversation's state saved; one of the two failing is caught by the loop
StepRecorded(ok) ==
  /\ lp.pc = "record"
  /\ lp' = IF ok THEN [lp EXCEPT !.pc = "wait"] ELSE NextStep(lp)
  /\ UNCHANGED notLoopVars

\* part_002 460-463, 485-487: after a click the polling starts with the url the
\* handler knows; after another step a timer of 500 ms is waited for
WaitStarts ==
  /\ lp.pc = "wait"
  /\ lp' = IF lp.steps[lp.i].type = "click"
            THEN [lp EXCEPT !.pc = "poll", !.waitCount = 0, !.previousUrl = lp.currentUrl]
            ELSE NextStep(lp)
  /\ UNCHANGED notLoopVars

\* part_002 463-483: one poll: 500 ms later the tab is asked for; a tab with
\* another url and status complete ends the wait (after 2 s more) and its url
\* is the one the handler knows from now on; anything else, a failed query
\* included, counts the poll, and the wait ends with poll maxPolls.
\* seenNavigation keeps whether a poll of the wait that goes on saw the tab
\* with another url and complete; lastWait keeps the polls of the last wait
\* that is over, and whether its last poll saw that; nWaits counts the waits
\* (history)
Poll(tab) ==
  /\ lp.pc = "poll"
  /\ lp.waitCount < maxPolls
  /\ LET polls == lp.waitCount + 1
         saw == /\ ~tab.failed
                /\ tab.url # "" /\ tab.url # lp.previousUrl
                /\ tab.status = "complete"
         over == << [polls |-> polls, navigation |-> saw] >>
     IN lp' = IF navigated(tab, lp.previousUrl)
              THEN NextStep([lp EXCEPT !.currentUrl = tab.url, !.previousUrl = tab.url,
                                       !.lastWait = over, !.nWaits = @ + 1])
              ELSE IF polls = maxPolls
              THEN NextStep([lp EXCEPT !.lastWait = over, !.nWaits = @ + 1])
              ELSE [lp EXCEPT !.waitCount = polls, !.seenNavigation = saw]
  /\ UNCHANGED notLoopVars

\* part_002 495-569: behind the loop the page content is looked at, the
\* recording stopped, the buffer removed and the reply saved: the handler
\* returns the llmConversation response, or, when one of these calls fails, the
\* error response of its catch block
HandlerReturns(ok) ==
  /\ lp.pc = "after"
  /\ lp' = [lp EXCEPT !.pc = "returned",
                      !.result = IF ok THEN "llmConversation" ELSE "error"]
  /\ UNCHANGED notLoopVars

\* part_002 400-428: the LLM has answered with a step list, the buffer is open
\* and the recorder started: the loop is entered, the conversation's state in
\* the map or not
InitLoop ==
  /\ RunIdle
  /\ PageIdle
  /\ DelIdle
  /\ RecIdle
  /\ imp = ImpIdle /\ cap = CapIdle /\ req = <<>> /\ cv = CvIdle /\ fz = FzIdle
  /\ rst = RstIdle /\ hyd = HydIdle /\ synth = SelIdle
  /\ \E steps \in LoopStepLists, present \in BOOLEAN :
       lp = [LoopIdle EXCEPT !.steps = steps, !.present = present, !.i = 1,
                             !.currentUrl = UrlExample,
                             !.pc = IF steps = <<>> THEN "after" ELSE "save"]

LoopNext ==
  \/ \E ok \in BOOLEAN : StateSaved(ok)
  \/ \E outcome \in Outcomes : StepAnswered(outcome)
  \/ \E ok \in BOOLEAN : StepRecorded(ok)
  \/ WaitStarts
  \/ \E tab \in PollResults : Poll(tab)
  \/ \E ok \in BOOLEAN : HandlerReturns(ok)

\* every call the handler awaits returns or fails, every timer fires
SpecLoop == InitLoop /\ [][LoopNext]_vars /\ WF_vars(LoopNext)

(***************************************************************************)
(* Properties of the execute loop                                          *)
(***************************************************************************)
\* the clicks among the steps the tab answered with success
ClicksExecuted == Len(SelectSeq(lp.executed, LAMBDA s : s.type = "click"))

\* C40: for every finite step list, provided each collaborator call eventually
\* returns or fails, the conversational execute loop terminates and the handler
\* returns a response: the navigation wait after a successful click ends after
\* at most 20 polls even when the tab's url never changes or every tab query
\* fails, and ends early at the first poll that sees a changed url with status
\* complete.
C40_ExecuteLoopTerminates ==
  /\ <>(lp.pc = "returned" /\ lp.result \in {"llmConversation", "error"})
  /\ [](/\ lp.waitCount < maxPolls
        /\ lp.i <= Len(lp.steps) + 1
        /\ lp.nWaits <= ClicksExecuted
        /\ (lp.nWaits = 0) = (lp.lastWait = <<>>)
        /\ \A k \in 1..Len(lp.lastWait) :
             /\ lp.lastWait[k].polls \in 1..maxPolls
             /\ lp.lastWait[k].polls < maxPolls => lp.lastWait[k].navigation)
  /\ [](lp.pc = "poll" =>
          /\ lp.steps[lp.i].type = "click"
          /\ lp.executed # <<>> /\ lp.executed[Len(lp.executed)] = lp.steps[lp.i]
          /\ ~lp.seenNavigation)

\* two clicks were executed: the wait after the first ended at a poll that saw
\* the navigation (the handler knows the other url), the wait after the second
\* after 20 polls none of which saw one; the handler returned
C40_Witness ==
  /\ lp.pc = "returned"
  /\ ClicksExecuted = 2
  /\ lp.nWaits = 2
  /\ lp.lastWait # <<>>
  /\ lp.lastWait[1].polls = maxPolls /\ ~lp.lastWait[1].navigation
  /\ lp.currentUrl = UrlParen

\* the wait after a click ended at its third poll, the first that saw the tab
\* at another url and complete
C40_WitnessEarly ==
  /\ lp.nWaits = 1
  /\ lp.lastWait # <<>>
  /\ lp.lastWait[1].polls = 3 /\ lp.lastWait[1].navigation

====
